---------------------------- MODULE Spec2Model ----------------------------
(***************************************************************************)
(* A model of the meeba-farm simulation core: the vitals (calorie)         *)
(* bookkeeping, the seeded pseudo-random generator, the genome codec, the  *)
(* trigonometry tables, the spikes, the body factory and the physics       *)
(* engine.                                                                 *)
(*                                                                         *)
(* Numbers.  JavaScript numbers are doubles.  Every quantity modelled here *)
(* is an integer or a ratio of two integers below 2^53, for which the      *)
(* double arithmetic of the source is exact; a ratio is kept as the pair   *)
(* <<numerator, denominator>>.  The settings the model draws are dyadic    *)
(* ratios, so that floor(mass * percent) is the exact floor.  The entries  *)
(* of the trigonometry tables are the doubles cut to six decimals, with a  *)
(* mark for what was cut; for the radii (3 to 5), angles and distances     *)
(* the model draws, the table indexes and the floored offsets are those    *)
(* the doubles give.                                                       *)
(***************************************************************************)
EXTENDS Integers, Sequences, FiniteSets, TLC

VARIABLES
    settings,     \* the configuration object read by every module
    vitals,       \* a Vitals object drained in place (app/meebas/vitals.js)
    pvitals,      \* the Vitals value held by a caller of the copying variant
    lastDrain,    \* the last drainCalories call: variant, before, amount, after, drained
    alphaNumSeed, \* the base-36 seed, a sequence of digit values 0..35
    prngs,        \* the closure variable `seed` of each generator built by getPrng
    outs,         \* the values each generator has returned so far (numerators)
    lastInt,      \* the last randInt call: min, max and its result
    genomeIn,     \* the byte sequence handed to the genome codec
    genesOut,     \* the result of toGenes(genomeIn), tagged with the variant
    commandsOut,  \* the result of readGenome(genomeIn), tagged with the variant
    parentBody,   \* the body handed to replicateParent
    childBody,    \* the body replicateParent returned
    dnaBytes,     \* the bytes replicateParent decodes from a body's dna
    spike,        \* a spike built by spawnSpike and handed to spike movers
    bodies,       \* the bodies handed to the physics engine
    startBodies,  \* the bodies as they were first handed to the engine
    sepPass,      \* the number of passes separateBodies has made
    clock,        \* the timestamp of the last simulated frame, in ms
    pipeline,     \* a running replicateGenome: the input, the stage reached, its value
    loop,         \* a running repeatItems or transposeItems: arguments and locals
    rolled,       \* a randControlByte call: the rolls table, the roll and the byte
    trig,         \* a call of a trigonometry function: the argument and the index
    phase         \* the position of the driver of each specification

vars == <<settings, vitals, pvitals, lastDrain, alphaNumSeed, prngs, outs,
          lastInt, genomeIn, genesOut, commandsOut, parentBody, childBody,
          dnaBytes, spike, bodies, startBodies, sepPass, clock, pipeline, loop,
          rolled, trig, phase>>

vitalsVars == <<vitals, pvitals, lastDrain>>
prngVars   == <<alphaNumSeed, prngs, outs, lastInt>>
genomeVars == <<genomeIn, genesOut, commandsOut>>
bodyVars   == <<parentBody, childBody>>
hexVars    == <<dnaBytes>>
spikeVars  == <<spike>>
simVars    == <<bodies, startBodies, sepPass, clock>>
pipeVars   == <<pipeline, loop>>
rollVars   == <<rolled>>
trigVars   == <<trig>>
lateVars   == <<pipeVars, rollVars, trigVars>>
moreVars   == <<hexVars, spikeVars, simVars, lateVars>>

None == [none |-> TRUE]

\* the variables a specification does not use hold None
NoHex   == dnaBytes = None
NoSpike == spike = None
NoSim   == bodies = None /\ startBodies = None /\ sepPass = None /\ clock = None
NoPipe  == pipeline = None /\ loop = None
NoRoll  == rolled = None
NoTrig  == trig = None
NoLate  == NoPipe /\ NoRoll /\ NoTrig

-----------------------------------------------------------------------------
(* Bounds of the model *)

\* the largest mass handed to initVitals in SpecVitals
MaxMass == 5
\* the largest amount drained, and the largest calorie level set, in one call
MaxDrain == 4
\* the number of values drawn from one generator
MaxCalls == 3
\* the widest range max - min handed to randInt
MaxRange == 3
\* the longest genome handed to the genome codec in SpecGenome
MaxGenomeLen == 4
\* the longest genome of a parent handed to replicateParent in SpecBody
MaxParentLen == 2
\* the number of draws that fall below their chance in one replicateGenome
MaxEvents == 2
\* the most calories the parent handed to replicateParent has above the level
\* at which it spawns
MaxParentCalories == 2
\* the number of frames simulated in SpecSim
MaxFrames == 3
\* the largest number of bodies handed to separateBodies in SpecSeparate
MaxBodies == 3
\* the number of times one spike is moved in SpecSpike
MaxMoves == 2
\* the largest configured chance of a gene type, in whole parts
MaxChance == 2
\* the longest array handed to repeatItems and transposeItems on their own
MaxItems == 3
\* the number of times repeatItems repeats one item
MaxRepeats == 2
\* the largest numerator of an angle or ratio handed to a trig function
MaxTurns == 9

-----------------------------------------------------------------------------
(* Arithmetic helpers *)

Min(a, b) == IF a < b THEN a ELSE b
Max(a, b) == IF a > b THEN a ELSE b

\* Math.floor(n * r) for an integer n >= 0 and a ratio r = <<num, den>>
FloorMul(n, r) == (n * r[1]) \div r[2]

\* (a + b) / 2 for two ratios
RatMid(a, b) == <<a[1] * b[2] + b[1] * a[2], 2 * a[2] * b[2]>>

RECURSIVE Pow(_, _)
Pow(b, e) == IF e = 0 THEN 1 ELSE b * Pow(b, e - 1)

RECURSIVE SumSeq(_)
SumSeq(s) == IF s = <<>> THEN 0 ELSE Head(s) + SumSeq(Tail(s))

-----------------------------------------------------------------------------
(* Settings *)

\* The vitals settings (settings.vitals) and the core temperature.  The
\* repository's settings module is not among the sources; the values drawn
\* are dyadic so that the doubles of the source are exact.
VitalsSettings ==
    { [percentDiesAt |-> d, percentSpawnsAt |-> s, upkeepPerMass |-> <<1, 4>>,
       upkeepPerSpike |-> 2, spikeCountExponent |-> 1, massCalorieExponent |-> 0,
       baseUpkeepAdjustment |-> <<1, 2>>, temperature |-> 30] :
         d \in {<<1, 2>>, <<3, 4>>}, s \in {<<2, 1>>, <<5, 2>>} }

-----------------------------------------------------------------------------
(* Vitals: app/meebas/vitals.js (drains in place) *)

\* A plausible slip of percentStartsAt: the sum is not halved.
percentStartsAtSum(fixed) ==
    <<fixed.percentDiesAt[1] * fixed.percentSpawnsAt[2]
        + fixed.percentSpawnsAt[1] * fixed.percentDiesAt[2],
      fixed.percentDiesAt[2] * fixed.percentSpawnsAt[2]>>

\* dynamic.percentStartsAt
percentStartsAt(fixed) == RatMid(fixed.percentDiesAt, fixed.percentSpawnsAt)

\* dynamic.upkeepAdjustment = baseUpkeepAdjustment * max(0, temperature) / 30
upkeepAdjustment(fixed) ==
    <<fixed.baseUpkeepAdjustment[1] * Max(0, fixed.temperature),
      fixed.baseUpkeepAdjustment[2] * 30>>

\* calcSpikeUpkeep: spikeLengths is the list of spike => spike.length
calcSpikeUpkeep(fixed, spikeLengths) ==
    Pow(Len(spikeLengths) * fixed.upkeepPerSpike, fixed.spikeCountExponent)
      + SumSeq(spikeLengths)

\* calcUpkeep: floor((massCost + spikeCost) * massAdjustment * upkeepAdjustment)
\* with massAdjustment = 1 / mass ** massCalorieExponent, as one exact ratio
calcUpkeep(fixed, mass, spikeLengths) ==
    LET adj  == upkeepAdjustment(fixed)
        cost == mass * fixed.upkeepPerMass[1]
                  + calcSpikeUpkeep(fixed, spikeLengths) * fixed.upkeepPerMass[2]
        den  == fixed.upkeepPerMass[2] * Pow(mass, fixed.massCalorieExponent) * adj[2]
    IN  (cost * adj[1]) \div den

initVitalsInPlace(fixed, mass, spikeLengths) ==
    LET calories == FloorMul(mass, percentStartsAt(fixed))
        diesAt   == FloorMul(mass, fixed.percentDiesAt)
    IN  [calories |-> calories,
         upkeep   |-> calcUpkeep(fixed, mass, spikeLengths),
         diesAt   |-> diesAt,
         spawnsAt |-> FloorMul(mass, fixed.percentSpawnsAt),
         isDead   |-> calories < diesAt]

\* A plausible slip of the in-place drain: the amount is not capped.
drainCaloriesInPlaceUncapped(v, drain) ==
    [vitals |-> [v EXCEPT !.calories = v.calories - drain], drain |-> drain]

\* drainCalories, mutating: the vitals after the call and the value returned
drainCaloriesInPlace(v, drain) ==
    LET actualDrain == IF v.calories > drain THEN drain ELSE v.calories
    IN  [vitals |-> [v EXCEPT !.calories = v.calories - actualDrain],
         drain  |-> actualDrain]

-----------------------------------------------------------------------------
(* Vitals: the copying variant (unnamed/part_002, lines 209-271) *)

CALORIES_DEATH == <<1, 2>>
CALORIES_SPAWN == <<2, 1>>
CALORIES_START == RatMid(CALORIES_DEATH, CALORIES_SPAWN)

initVitals(mass) ==
    LET calories == FloorMul(mass, CALORIES_START)
        diesAt   == FloorMul(mass, CALORIES_DEATH)
        spawnsAt == FloorMul(mass, CALORIES_SPAWN)
        isDead   == calories < diesAt
    IN  [calories |-> calories, diesAt |-> diesAt, spawnsAt |-> spawnsAt,
         isDead |-> isDead]

\* setCalories returns a new object and leaves its argument alone
setCalories(v, calories) ==
    [v EXCEPT !.calories = calories, !.isDead = calories < v.diesAt]

\* A plausible slip of the copying drain: the calories are not held at 0.
drainCaloriesUnclamped(v, drain) ==
    LET calories == v.calories - drain
    IN  [vitals |-> [v EXCEPT !.calories = calories,
                              !.isDead = calories < v.diesAt],
         drain  |-> drain]

\* drainCalories, copying: {vitals, drain}
drainCalories(v, drain) ==
    LET calories == IF drain < v.calories THEN v.calories - drain ELSE 0
    IN  [vitals |-> [v EXCEPT !.calories = calories,
                              !.isDead = calories < v.diesAt],
         drain  |-> IF calories > 0 THEN drain ELSE v.calories]

-----------------------------------------------------------------------------
(* SpecVitals: initVitals, then any sequence of calorie changes *)

\* the spike length lists handed to initVitals
SpikeLengthLists == {<<>>, <<2>>, <<3, 1>>}

InitVitals ==
    /\ NoLate
    /\ settings \in VitalsSettings
    /\ \E mass \in 0..MaxMass, spikeLengths \in SpikeLengthLists :
          /\ vitals = initVitalsInPlace(settings, mass, spikeLengths)
          /\ pvitals = initVitals(mass)
    /\ lastDrain = None
    /\ alphaNumSeed = None /\ prngs = None /\ outs = None /\ lastInt = None
    /\ genomeIn = None /\ genesOut = None /\ commandsOut = None
    /\ parentBody = None /\ childBody = None
    /\ phase = "vitals"
    /\ NoHex /\ NoSpike /\ NoSim

\* drainCalories(vitals, amount) of app/meebas/vitals.js
DrainInPlace(amount) ==
    LET r == drainCaloriesInPlace(vitals, amount)
    IN  /\ vitals' = r.vitals
        /\ lastDrain' = [variant |-> "inplace", before |-> vitals.calories,
                         amount |-> amount, after |-> r.vitals.calories,
                         drained |-> r.drain]
        /\ UNCHANGED <<moreVars, settings, pvitals, prngVars, genomeVars, bodyVars, phase>>

\* const {vitals, drain} = drainCalories(vitals, amount) of the copying variant
DrainCopy(amount) ==
    LET r == drainCalories(pvitals, amount)
    IN  /\ pvitals' = r.vitals
        /\ lastDrain' = [variant |-> "copy", before |-> pvitals.calories,
                         amount |-> amount, after |-> r.vitals.calories,
                         drained |-> r.drain]
        /\ UNCHANGED <<moreVars, settings, vitals, prngVars, genomeVars, bodyVars, phase>>

\* vitals = setCalories(vitals, calories)
SetCalories(calories) ==
    /\ pvitals' = setCalories(pvitals, calories)
    /\ UNCHANGED <<moreVars, settings, vitals, lastDrain, prngVars, genomeVars, bodyVars, phase>>

NextVitals ==
    \/ \E amount \in 0..MaxDrain : DrainInPlace(amount)
    \/ \E amount \in 0..MaxDrain : DrainCopy(amount)
    \/ \E calories \in 0..MaxDrain : SetCalories(calories)

SpecVitals == InitVitals /\ [][NextVitals]_vars

\* C1: after initVitals and after any sequence of calorie changes, in either
\* variant, isDead is true exactly when calories are below diesAt.
C1_IsDeadIffBelowDiesAt ==
    /\ vitals.isDead = (vitals.calories < vitals.diesAt)
    /\ pvitals.isDead = (pvitals.calories < pvitals.diesAt)

\* The in-place drain has left a live-flagged body below its death threshold.
C1_StaleIsDead ==
    /\ lastDrain # None
    /\ lastDrain.variant = "inplace"
    /\ vitals.calories < vitals.diesAt
    /\ ~vitals.isDead

\* C2: drainCalories removes min(amount, calories), never leaves calories
\* negative, and returns the amount it removed (before = after + drained).
C2_DrainRemovesMin ==
    lastDrain # None =>
        /\ lastDrain.drained = Min(lastDrain.amount, lastDrain.before)
        /\ lastDrain.before = lastDrain.after + lastDrain.drained
        /\ lastDrain.after >= 0

\* A drain that asked for more than was left, of a body that had calories.
C2_ClampedDrain ==
    /\ lastDrain # None
    /\ lastDrain.before > 0
    /\ lastDrain.amount > lastDrain.before
    /\ lastDrain.drained = lastDrain.before

-----------------------------------------------------------------------------
(* SpecBirth: initVitals is called for a new body, in both variants *)

\* the percentages of mass the thresholds are configured from
BirthPercents == {<<0, 1>>, <<1, 2>>, <<3, 4>>, <<2, 1>>, <<5, 2>>}

\* settings.vitals with any two of them as percentDiesAt and percentSpawnsAt
BirthSettings ==
    { [percentDiesAt |-> d, percentSpawnsAt |-> s, upkeepPerMass |-> <<1, 4>>,
       upkeepPerSpike |-> 2, spikeCountExponent |-> 1, massCalorieExponent |-> 0,
       baseUpkeepAdjustment |-> <<1, 2>>, temperature |-> 30] :
         d \in BirthPercents, s \in BirthPercents }

InitBirth ==
    /\ NoLate
    /\ settings \in BirthSettings
    /\ vitals = None /\ pvitals = None /\ lastDrain = None
    /\ alphaNumSeed = None /\ prngs = None /\ outs = None /\ lastInt = None
    /\ genomeIn = None /\ genesOut = None /\ commandsOut = None
    /\ parentBody = None /\ childBody = None
    /\ NoHex /\ NoSpike /\ NoSim
    /\ phase = "unborn"

\* initVitals(mass, spikes) of app/meebas/vitals.js and initVitals(mass) of
\* the copying variant
CallInitVitals(mass, spikeLengths) ==
    /\ phase = "unborn"
    /\ vitals' = initVitalsInPlace(settings, mass, spikeLengths)
    /\ pvitals' = initVitals(mass)
    /\ phase' = "born"
    /\ UNCHANGED <<moreVars, settings, lastDrain, prngVars, genomeVars, bodyVars>>

NextBirth ==
    \E mass \in 0..MaxMass, spikeLengths \in SpikeLengthLists :
        CallInitVitals(mass, spikeLengths)

SpecBirth == InitBirth /\ [][NextBirth]_vars

\* a <= b for two ratios
RatLeq(a, b) == a[1] * b[2] <= b[1] * a[2]

\* C25: for every mass >= 0 and 0 <= percentDiesAt <= percentSpawnsAt,
\* initVitals returns diesAt <= calories <= spawnsAt and isDead = false.
C25_BornAliveBelowSpawn ==
    /\ phase = "born" /\ RatLeq(settings.percentDiesAt, settings.percentSpawnsAt) =>
          /\ vitals.diesAt <= vitals.calories
          /\ vitals.calories <= vitals.spawnsAt
          /\ ~vitals.isDead
    /\ phase = "born" =>
          /\ pvitals.diesAt <= pvitals.calories
          /\ pvitals.calories <= pvitals.spawnsAt
          /\ ~pvitals.isDead

\* A body is born with equal thresholds and an odd number of calories, which
\* is both thresholds.
C25_BornOnBothThresholds ==
    /\ phase = "born"
    /\ settings.percentDiesAt = settings.percentSpawnsAt
    /\ vitals.diesAt = vitals.calories /\ vitals.calories = vitals.spawnsAt
    /\ vitals.calories % 2 = 1

\* A body is born strictly between its thresholds.
C25_BornBetweenThresholds ==
    /\ phase = "born"
    /\ vitals.diesAt < vitals.calories /\ vitals.calories < vitals.spawnsAt
    /\ pvitals.diesAt < pvitals.calories /\ pvitals.calories < pvitals.spawnsAt

\* With percentDiesAt above percentSpawnsAt a body is born dead.
C25_BornDeadWhenThresholdsCross ==
    /\ phase = "born"
    /\ ~RatLeq(settings.percentDiesAt, settings.percentSpawnsAt)
    /\ vitals.isDead

-----------------------------------------------------------------------------
(* The seeded generator: unnamed/part_001, lines 564-594 (utils/math.js) *)

LCG_MULTIPLIER == 16807
LCG_MODULUS == 2147483647
LCG_DIVISOR == 2147483646

\* parseInt(alphaNumSeed, 36): the digits '0'..'9', 'a'..'z' have the values
\* 0..35 and are read most significant first
RECURSIVE parseInt36(_)
parseInt36(digits) ==
    IF digits = <<>> THEN 0
    ELSE 36 * parseInt36(SubSeq(digits, 1, Len(digits) - 1)) + digits[Len(digits)]

\* (seed * 16807) % 2147483647.  The product is below 2^53 and exact in the
\* source; here it is split (Schrage) so that no intermediate value leaves
\* 32 bits: with q = m div a and r = m mod a, a*s mod m = a*(s mod q) - r*(s div q)
\* (+ m when negative).
nextSeed(seed) ==
    LET s == seed % LCG_MODULUS
        q == LCG_MODULUS \div LCG_MULTIPLIER
        r == LCG_MODULUS % LCG_MULTIPLIER
        t == LCG_MULTIPLIER * (s % q) - r * (s \div q)
    IN  IF t >= 0 THEN t ELSE t + LCG_MODULUS

\* A plausible slip of getPrng: `seed` declared at module level, so that every
\* generator advances the same variable.
callPrngSharedSeed(ps, i) ==
    [prngs |-> [j \in DOMAIN ps |-> nextSeed(ps[i])], value |-> nextSeed(ps[i])]

\* One call of the closure getPrng returned as generator i: the closure
\* variables afterwards and the value returned, as the numerator of
\* seed / 2147483646
callPrng(ps, i) ==
    [prngs |-> [ps EXCEPT ![i] = nextSeed(ps[i])], value |-> nextSeed(ps[i])]

\* <<floor(n * k / d), (n * k) mod d>> for 0 <= n <= d, by k additions of n
RECURSIVE MulDivMod(_, _, _)
MulDivMod(n, k, d) ==
    IF k = 0 THEN <<0, 0>>
    ELSE LET p == MulDivMod(n, k - 1, d)
         IN  IF p[2] >= d - n THEN <<p[1] + 1, p[2] - (d - n)>>
                              ELSE <<p[1], p[2] + n>>

\* randInt(min, max) given the numerator of the value rand() returned
randInt(value, min, max) == min + MulDivMod(value, max - min, LCG_DIVISOR)[1]

-----------------------------------------------------------------------------
(* SpecPrng: two generators built from one seed, called in any order *)

\* The seeds drawn: short ones, the largest seed below the modulus
\* ("zik0zi"), and "c8gmgn" = 739806647
SeedStrings ==
    { <<1>>, <<2>>, <<35>>, <<1, 0>>, <<10, 11, 12>>,
      <<35, 18, 20, 0, 35, 18>>, <<12, 8, 16, 22, 16, 23>> }

InitPrng ==
    /\ NoLate
    /\ alphaNumSeed \in SeedStrings
    /\ prngs = [i \in 1..2 |-> parseInt36(alphaNumSeed)]
    /\ outs = [i \in 1..2 |-> <<>>]
    /\ lastInt = None
    /\ settings = None
    /\ vitals = None /\ pvitals = None /\ lastDrain = None
    /\ genomeIn = None /\ genesOut = None /\ commandsOut = None
    /\ parentBody = None /\ childBody = None
    /\ phase = "prng"
    /\ NoHex /\ NoSpike /\ NoSim

\* generator i is called
Rand(i) ==
    LET r == callPrng(prngs, i)
    IN  /\ Len(outs[i]) < MaxCalls
        /\ prngs' = r.prngs
        /\ outs' = [outs EXCEPT ![i] = Append(@, r.value)]
        /\ UNCHANGED <<moreVars, alphaNumSeed, lastInt, settings, vitalsVars, genomeVars,
                       bodyVars, phase>>

\* randInt(min, max), which draws from generator 1 (the module's rand)
RandInt(min, max) ==
    LET r == callPrng(prngs, 1)
    IN  /\ Len(outs[1]) < MaxCalls
        /\ prngs' = r.prngs
        /\ outs' = [outs EXCEPT ![1] = Append(@, r.value)]
        /\ lastInt' = [min |-> min, max |-> max, result |-> randInt(r.value, min, max)]
        /\ UNCHANGED <<moreVars, alphaNumSeed, settings, vitalsVars, genomeVars, bodyVars, phase>>

NextPrng ==
    \/ \E i \in 1..2 : Rand(i)
    \/ \E min \in -1..1, k \in 1..MaxRange : RandInt(min, min + k)

SpecPrng == InitPrng /\ [][NextPrng]_vars

\* C5: two generators built from the same seed return the same value at
\* every call index.
C5_SameSeedSameSequence ==
    \A n \in 1..Min(Len(outs[1]), Len(outs[2])) : outs[1][n] = outs[2][n]

\* Both generators have been called more than once, and the sequence moves.
C5_BothCalledTwice ==
    /\ Len(outs[1]) >= 2
    /\ Len(outs[2]) >= 2
    /\ outs[1][1] # outs[1][2]

\* C6: for every starting seed in 1..2147483646, every value rand() returns
\* is >= 0 and strictly below 1.
C6_RandInUnitInterval ==
    parseInt36(alphaNumSeed) \in 1..LCG_DIVISOR =>
        \A i \in 1..2 : \A n \in 1..Len(outs[i]) :
            outs[i][n] >= 0 /\ outs[i][n] < LCG_DIVISOR

\* C7: for min < max, randInt(min, max) returns an integer r, min <= r < max.
C7_RandIntBelowMax ==
    (lastInt # None /\ lastInt.min < lastInt.max) =>
        (lastInt.min <= lastInt.result /\ lastInt.result < lastInt.max)

-----------------------------------------------------------------------------
(* The genome codec: unnamed/part_001, lines 134-436 (app/meebas/genome.js), *)
(* and the earlier app/meebas/genome.js among the sources ("legacy")        *)

\* a control byte is a byte >= 0xF0
CONTROL_BYTE == 240
\* the gene types read by readGenome: 0xF0 size, 0xF1 spike, 0xF2..0xF4 colour
SIZE_GENE == 240
SPIKE_GENE == 241
RED_GENE == 242
GREEN_GENE == 243
BLUE_GENE == 244

\* legacy constants
BITS_PER_SIZE_PIXEL == 1
BITS_PER_SPIKE_LENGTH == 2

\* settings.genome; the values are configuration
GenomeSettings ==
    { [bitsPerMass |-> 2, bitsPerSpikeLength |-> 3],
      [bitsPerMass |-> 3, bitsPerSpikeLength |-> 2] }

\* byte.toString(2).split('').filter(bit => bit === '1').length
RECURSIVE onesOfByte(_)
onesOfByte(byte) == IF byte = 0 THEN 0 ELSE (byte % 2) + onesOfByte(byte \div 2)

\* countBits: bytes.reduce((count, byte) => count + ones(byte), 0)
RECURSIVE countBits(_)
countBits(bytes) ==
    IF bytes = <<>> THEN 0 ELSE onesOfByte(Head(bytes)) + countBits(Tail(bytes))

\* arr.slice(start, end) on 0-based indexes, end exclusive
slice(arr, start, end) == SubSeq(arr, start + 1, end)

\* A plausible slip of findControlIndexes: the threshold is 0xEF.
findControlIndexesFromEF(genome) ==
    SelectSeq([i \in 1..Len(genome) |-> i - 1],
              LAMBDA index : genome[index + 1] >= CONTROL_BYTE - 1)

\* findControlIndexes: the 0-based indexes of the bytes >= 0xF0, ascending
findControlIndexes(genome) ==
    SelectSeq([i \in 1..Len(genome) |-> i - 1],
              LAMBDA index : genome[index + 1] >= CONTROL_BYTE)

\* The gene objects built from the control indexes; indexes[i + 1] is
\* undefined for the last gene and slice then runs to the end.
genesAt(genome, indexes) ==
    [i \in 1..Len(indexes) |->
        [type     |-> genome[indexes[i] + 1],
         location |-> <<indexes[i], Len(genome)>>,
         bytes    |-> slice(genome, indexes[i] + 1,
                            IF i + 1 <= Len(indexes) THEN indexes[i + 1]
                                                     ELSE Len(genome))]]

\* A plausible slip of toGenes: the slice starts at the control byte.
toGenesKeepsControlByte(genome) ==
    LET indexes == findControlIndexes(genome)
    IN  [i \in 1..Len(indexes) |->
            [type     |-> genome[indexes[i] + 1],
             location |-> <<indexes[i], Len(genome)>>,
             bytes    |-> slice(genome, indexes[i],
                                IF i + 1 <= Len(indexes) THEN indexes[i + 1]
                                                         ELSE Len(genome))]]

toGenes(genome) == genesAt(genome, findControlIndexes(genome))

\* legacy toGenes: map each byte to its index or -1, drop the -1, build genes
toGenesLegacy(genome) ==
    LET marked == [i \in 1..Len(genome) |->
                      IF genome[i] >= CONTROL_BYTE THEN i - 1 ELSE -1]
    IN  genesAt(genome, SelectSeq(marked, LAMBDA index : index # -1))

\* A plausible slip of countTypeBits: the type filter is missing.
countTypeBitsOfEveryType(typeByte, gs) ==
    SumSeq([i \in 1..Len(gs) |-> countBits(gs[i].bytes)])

countTypeBits(typeByte, gs) ==
    LET matching == SelectSeq(gs, LAMBDA gene : gene.type = typeByte)
    IN  SumSeq([i \in 1..Len(matching) |-> countBits(matching[i].bytes)])

\* A plausible slip of readSpikeGene: the bit count is not scaled down.
readSpikeGeneUnscaled(fixed, gene) ==
    [angle |-> gene.location, length |-> countBits(gene.bytes)]

readSpikeGene(fixed, gene) ==
    [angle  |-> gene.location,
     length |-> countBits(gene.bytes) \div fixed.bitsPerSpikeLength]

\* readGenome; hue is rgbToHue of the three colour censuses, kept as rgb
readGenome(fixed, genome) ==
    LET gs     == toGenes(genome)
        spikes == SelectSeq(gs, LAMBDA gene : gene.type = SPIKE_GENE)
    IN  [size   |-> countTypeBits(SIZE_GENE, gs) \div fixed.bitsPerMass,
         spikes |-> [i \in 1..Len(spikes) |-> readSpikeGene(fixed, spikes[i])],
         rgb    |-> <<countTypeBits(RED_GENE, gs), countTypeBits(GREEN_GENE, gs),
                      countTypeBits(BLUE_GENE, gs)>>]

readSizeGeneLegacy(gene) == countBits(gene.bytes) \div BITS_PER_SIZE_PIXEL

readSpikeGeneLegacy(gene) ==
    [angle  |-> gene.location,
     length |-> countBits(gene.bytes) \div BITS_PER_SPIKE_LENGTH]

readGenomeLegacy(genome) ==
    LET gs     == toGenesLegacy(genome)
        sizes  == SelectSeq(gs, LAMBDA gene : gene.type = SIZE_GENE)
        spikes == SelectSeq(gs, LAMBDA gene : gene.type = SPIKE_GENE)
    IN  [size   |-> SumSeq([i \in 1..Len(sizes) |-> readSizeGeneLegacy(sizes[i])]),
         spikes |-> [i \in 1..Len(spikes) |-> readSpikeGeneLegacy(spikes[i])]]

-----------------------------------------------------------------------------
(* SpecGenome: a genome is parsed and read by both variants of the codec *)

\* the bytes genomes are drawn from: plain bytes with 0, 3 and 7 set bits,
\* and the control bytes of a size, a spike and a colour gene
GenomeBytes == {0, 7, 239, 240, 241, 242}

RECURSIVE SeqsUpTo(_, _)
SeqsUpTo(S, n) ==
    IF n = 0 THEN {<<>>}
    ELSE LET shorter == SeqsUpTo(S, n - 1)
         IN  shorter \cup {Append(q, x) : q \in shorter, x \in S}

InitGenome ==
    /\ NoLate
    /\ settings \in GenomeSettings
    /\ genomeIn \in SeqsUpTo(GenomeBytes, MaxGenomeLen)
    /\ genesOut = None /\ commandsOut = None
    /\ vitals = None /\ pvitals = None /\ lastDrain = None
    /\ alphaNumSeed = None /\ prngs = None /\ outs = None /\ lastInt = None
    /\ parentBody = None /\ childBody = None
    /\ phase = "genome"
    /\ NoHex /\ NoSpike /\ NoSim

ToGenes ==
    /\ genesOut' = [variant |-> "current", value |-> toGenes(genomeIn)]
    /\ UNCHANGED <<moreVars, settings, genomeIn, commandsOut, vitalsVars, prngVars, bodyVars, phase>>

ToGenesLegacy ==
    /\ genesOut' = [variant |-> "legacy", value |-> toGenesLegacy(genomeIn)]
    /\ UNCHANGED <<moreVars, settings, genomeIn, commandsOut, vitalsVars, prngVars, bodyVars, phase>>

ReadGenome ==
    /\ commandsOut' = [variant |-> "current", value |-> readGenome(settings, genomeIn)]
    /\ UNCHANGED <<moreVars, settings, genomeIn, genesOut, vitalsVars, prngVars, bodyVars, phase>>

ReadGenomeLegacy ==
    /\ commandsOut' = [variant |-> "legacy", value |-> readGenomeLegacy(genomeIn)]
    /\ UNCHANGED <<moreVars, settings, genomeIn, genesOut, vitalsVars, prngVars, bodyVars, phase>>

NextGenome == ToGenes \/ ToGenesLegacy \/ ReadGenome \/ ReadGenomeLegacy

SpecGenome == InitGenome /\ [][NextGenome]_vars

\* The positions (1-based) of the control bytes of the genome, and the k-th
\* of them from the left
ControlPositions == {i \in 1..Len(genomeIn) : genomeIn[i] >= CONTROL_BYTE}
KthOf(S, k) == CHOOSE i \in S : Cardinality({j \in S : j < i}) = k - 1
\* the position of the first control byte after position i, or one past the end
NextControlAfter(i) ==
    IF \E j \in ControlPositions : j > i
    THEN CHOOSE j \in ControlPositions :
             j > i /\ \A h \in ControlPositions : h > i => j <= h
    ELSE Len(genomeIn) + 1
\* the set bits of one byte, bit by bit
OnesAt(i) == Cardinality({b \in 0..7 : (genomeIn[i] \div (2 ^ b)) % 2 = 1})
RECURSIVE OnesBetween(_, _)
OnesBetween(from, to) ==
    IF from > to THEN 0 ELSE OnesAt(from) + OnesBetween(from + 1, to)
\* the set bits of the body of the gene whose control byte is at position i
BodyOnes(i) == OnesBetween(i + 1, NextControlAfter(i) - 1)
RECURSIVE SumOver(_)
SumOver(S) ==
    IF S = {} THEN 0
    ELSE LET i == CHOOSE x \in S : TRUE IN BodyOnes(i) + SumOver(S \ {i})

\* C8: toGenes yields one gene per control byte, in genome order; a gene's
\* body is the bytes after its control byte up to the next control byte or
\* the end, so it holds no control byte, bytes before the first control byte
\* are in no gene, and location = index / length lies in [0,1).
C8_OneGenePerControlByte ==
    genesOut # None =>
        LET gs == genesOut.value
        IN  /\ Len(gs) = Cardinality(ControlPositions)
            /\ \A k \in 1..Len(gs) :
                  LET i == KthOf(ControlPositions, k)
                  IN  /\ gs[k].type = genomeIn[i]
                      /\ gs[k].bytes = SubSeq(genomeIn, i + 1, NextControlAfter(i) - 1)
                      /\ \A n \in 1..Len(gs[k].bytes) : gs[k].bytes[n] < CONTROL_BYTE
                      /\ gs[k].location = <<i - 1, Len(genomeIn)>>
                      /\ 0 <= gs[k].location[1]
                      /\ gs[k].location[1] < gs[k].location[2]

\* A parsed genome that starts with plain bytes and holds two genes, one with
\* an empty body and one without.
C8_LeadingBytesTwoGenes ==
    /\ genesOut # None
    /\ Len(genesOut.value) = 2
    /\ genomeIn[1] < CONTROL_BYTE
    /\ genesOut.value[1].bytes = <<>>
    /\ genesOut.value[2].bytes # <<>>

\* C9: readGenome(genome).size = floor(B / bitsPerMass), B the set bits of
\* the bodies of the 0xF0 genes only.
C9_SizeIsSizeGeneCensus ==
    commandsOut # None =>
        commandsOut.value.size =
            SumOver({i \in ControlPositions : genomeIn[i] = SIZE_GENE})
              \div (IF commandsOut.variant = "legacy" THEN BITS_PER_SIZE_PIXEL
                                                      ELSE settings.bitsPerMass)

\* A genome read by the current codec, with a size gene and another gene
\* whose body has set bits, and a size that the division rounded down.
C9_SizeAmongOtherGenes ==
    /\ commandsOut # None
    /\ commandsOut.variant = "current"
    /\ commandsOut.value.size > 0
    /\ \E i \in ControlPositions : genomeIn[i] # SIZE_GENE /\ BodyOnes(i) > 0
    /\ commandsOut.value.size * settings.bitsPerMass
         < SumOver({i \in ControlPositions : genomeIn[i] = SIZE_GENE})

\* C10: readGenome(genome).spikes holds one command per 0xF1 gene, in genome
\* order, with angle the gene's location in [0,1) and length
\* floor(set bits of that gene's body / bitsPerSpikeLength) >= 0.
C10_OneSpikePerSpikeGene ==
    commandsOut # None =>
        LET spikes == commandsOut.value.spikes
            at     == {i \in ControlPositions : genomeIn[i] = SPIKE_GENE}
            per    == IF commandsOut.variant = "legacy" THEN BITS_PER_SPIKE_LENGTH
                                                        ELSE settings.bitsPerSpikeLength
        IN  /\ Len(spikes) = Cardinality(at)
            /\ \A k \in 1..Len(spikes) :
                  LET i == KthOf(at, k)
                  IN  /\ spikes[k].angle = <<i - 1, Len(genomeIn)>>
                      /\ 0 <= spikes[k].angle[1]
                      /\ spikes[k].angle[1] < spikes[k].angle[2]
                      /\ spikes[k].length = BodyOnes(i) \div per
                      /\ spikes[k].length >= 0

\* Two spike commands of different lengths, the first one longer than zero.
C10_TwoSpikes ==
    /\ commandsOut # None
    /\ Len(commandsOut.value.spikes) = 2
    /\ commandsOut.value.spikes[1].length > 0
    /\ commandsOut.value.spikes[1].length # commandsOut.value.spikes[2].length

\* C11: for a genome with no control byte, the empty genome included, gene
\* parsing returns no gene and readGenome returns size 0 and no spike.
C11_NoControlByteReadsEmpty ==
    (\A i \in 1..Len(genomeIn) : genomeIn[i] < CONTROL_BYTE) =>
        /\ genesOut # None => genesOut.value = <<>>
        /\ commandsOut # None =>
              /\ commandsOut.value.size = 0
              /\ commandsOut.value.spikes = <<>>

\* A genome of plain bytes with set bits, among them 0xEF, parsed and read
\* by the current codec.
C11_PlainBytesRead ==
    /\ Len(genomeIn) >= 2
    /\ \A i \in 1..Len(genomeIn) : genomeIn[i] < CONTROL_BYTE /\ OnesAt(i) > 0
    /\ \E i \in 1..Len(genomeIn) : genomeIn[i] = CONTROL_BYTE - 1
    /\ genesOut # None /\ genesOut.variant = "current"
    /\ commandsOut # None /\ commandsOut.variant = "current"

\* The empty genome, parsed and read.
C11_EmptyGenomeRead ==
    genomeIn = <<>> /\ genesOut # None /\ commandsOut # None

-----------------------------------------------------------------------------
(* replicateGenome: unnamed/part_001, lines 351-436.  Every rand() draw is a *)
(* choice, so a stage is the set of the arrays it can return.  A draw that   *)
(* falls below its chance (a bit flipped, an item dropped, repeated or       *)
(* picked for transposition) is an event; a stage is given the number of     *)
(* events still allowed and returns pairs <<array, events left>>.            *)

\* the xor masks mutateBits draws when a bit flips: the lowest bit
XorMasks == {1}

\* byte ^ xorMask
RECURSIVE xor(_, _)
xor(a, b) ==
    IF a = 0 /\ b = 0 THEN 0
    ELSE (((a % 2) + (b % 2)) % 2) + 2 * xor(a \div 2, b \div 2)

\* mutateBits(byte) for a mask with a bit set
mutateBits(byte) == {xor(byte, xorMask) : xorMask \in XorMasks}

\* <<item>> put before the array of every pair of S
consAll(item, S) == {<<<<item>> \o p[1], p[2]>> : p \in S}

\* map(genome, mutateBits)
RECURSIVE mapMutateBits(_, _)
mapMutateBits(arr, events) ==
    IF arr = <<>> THEN {<<<<>>, events>>}
    ELSE consAll(Head(arr), mapMutateBits(Tail(arr), events))
           \cup (IF events = 0 THEN {}
                 ELSE UNION { consAll(b, mapMutateBits(Tail(arr), events - 1)) :
                                 b \in mutateBits(Head(arr)) })

\* filter(arr, () => rand() >= chance): an item is kept, or dropped
RECURSIVE filterByChance(_, _)
filterByChance(arr, events) ==
    IF arr = <<>> THEN {<<<<>>, events>>}
    ELSE consAll(Head(arr), filterByChance(Tail(arr), events))
           \cup (IF events = 0 THEN {} ELSE filterByChance(Tail(arr), events - 1))

\* repeatItems: arr[i] is pushed, and i stays where it is when rand() < chance
RECURSIVE repeatItems(_, _)
repeatItems(arr, events) ==
    IF arr = <<>> THEN {<<<<>>, events>>}
    ELSE consAll(Head(arr), repeatItems(Tail(arr), events))
           \cup (IF events = 0 THEN {}
                 ELSE consAll(Head(arr), repeatItems(arr, events - 1)))

\* A plausible slip of the splice: a delete count of 1, which takes the item
\* at the index out.
spliceInReplacing(arr, at, item) ==
    SubSeq(arr, 1, at) \o <<item>> \o SubSeq(arr, at + 2, Len(arr))

\* transposed.splice(at, 0, item)
spliceIn(arr, at, item) ==
    SubSeq(arr, 1, at) \o <<item>> \o SubSeq(arr, at + 1, Len(arr))

\* the second loop of transposeItems, from every array the draws so far can
\* have built: each item of toTranspose is spliced in at
\* randInt(0, transposed.length), which is 0..length-1, or length when rand()
\* returns 1
RECURSIVE spliceAll(_, _)
spliceAll(transposedSoFar, toTranspose) ==
    IF toTranspose = <<>> THEN transposedSoFar
    ELSE spliceAll(UNION { {spliceIn(t, at, Head(toTranspose)) : at \in 0..Len(t)} :
                              t \in transposedSoFar },
                   Tail(toTranspose))

\* the first loop of transposeItems: <<transposed, toTranspose, events left>>
RECURSIVE splitByChance(_, _)
splitByChance(arr, events) ==
    IF arr = <<>> THEN {<<<<>>, <<>>, events>>}
    ELSE {<<<<Head(arr)>> \o p[1], p[2], p[3]>> : p \in splitByChance(Tail(arr), events)}
           \cup (IF events = 0 THEN {}
                 ELSE {<<p[1], <<Head(arr)>> \o p[2], p[3]>> :
                          p \in splitByChance(Tail(arr), events - 1)})

transposeItems(arr, events) ==
    UNION { {<<t, p[3]>> : t \in spliceAll({p[1]}, p[2])} :
               p \in splitByChance(arr, events) }

\* chunkBy(arr, findControlIndexes) of utils/arrays.js: the array cut before
\* each control byte; bytes before the first control byte form a chunk of
\* their own
chunkBy(arr) ==
    LET indexes == findControlIndexes(arr)
        starts  == IF indexes # <<>> /\ indexes[1] = 0 THEN indexes
                   ELSE IF arr = <<>> THEN <<>> ELSE <<0>> \o indexes
    IN  [i \in 1..Len(starts) |->
            slice(arr, starts[i],
                  IF i + 1 <= Len(starts) THEN starts[i + 1] ELSE Len(arr))]

\* joinGeneArray: concatBytes(...geneArray)
RECURSIVE joinGeneArray(_)
joinGeneArray(geneArray) ==
    IF geneArray = <<>> THEN <<>>
    ELSE Head(geneArray) \o joinGeneArray(Tail(geneArray))

\* pipe(...).into(stage): the stage applied to every outcome so far
into(outcomes, stage(_, _)) == UNION {stage(p[1], p[2]) : p \in outcomes}

\* replicateGenome: the pipeline
replicateGenome(genome) ==
    LET mutated     == mapMutateBits(genome, MaxEvents)
        dropped     == into(mutated, filterByChance)
        repeated    == into(dropped, repeatItems)
        transposed  == into(repeated, transposeItems)
        chunked     == {<<chunkBy(p[1]), p[2]>> : p \in transposed}
        droppedG    == into(chunked, filterByChance)
        repeatedG   == into(droppedG, repeatItems)
        transposedG == into(repeatedG, transposeItems)
    IN  {joinGeneArray(p[1]) : p \in transposedG}

-----------------------------------------------------------------------------
(* SpecReplicate: replicateGenome runs stage by stage on a caller's genome. *)
(* genomeIn is the caller's array as the call leaves it; pipeline.value is  *)
(* what the last stage returned, and pipeline.fresh says that it is an      *)
(* array a stage made, not the caller's.                                    *)

CURRENT == "current"
LEGACY == "legacy"

\* A plausible slip of the pipeline: the bytes are repeated before they are
\* dropped.
stageOrderRepeatsFirst(variant) ==
    IF variant = LEGACY THEN <<"mutateBits">>
    ELSE <<"mutateBits", "repeatByte", "dropByte", "transposeByte", "chunkBy",
           "dropGene", "repeatGene", "transposeGene", "joinGeneArray">>

\* the stages in the order of the .into(...) calls; the legacy replicateGenome
\* is genome.map(mutateBits) alone
stageOrder(variant) ==
    IF variant = LEGACY THEN <<"mutateBits">>
    ELSE <<"mutateBits", "dropByte", "repeatByte", "transposeByte", "chunkBy",
           "dropGene", "repeatGene", "transposeGene", "joinGeneArray">>

\* the stage that runs next, or "done"
nextStage(p) ==
    IF p.stage < Len(stageOrder(p.variant)) THEN stageOrder(p.variant)[p.stage + 1]
    ELSE "done"

\* A plausible slip of the first stage: the mutated bytes are written into the
\* genome that was handed in.
mappedInPlace(genome, p, out) ==
    [genome   |-> out[1],
     pipeline |-> [p EXCEPT !.stage = @ + 1, !.value = out[1], !.fresh = FALSE,
                            !.events = out[2]]]

\* map(genome, mutateBits), genome.map(mutateBits) in the legacy codec: a new
\* array; the caller's genome and the pipeline after the stage
mapped(genome, p, out) ==
    [genome   |-> genome,
     pipeline |-> [p EXCEPT !.stage = @ + 1, !.value = out[1], !.fresh = TRUE,
                            !.events = out[2]]]

\* the pipeline after a later stage has returned out = <<array, events left>>;
\* filter, repeatItems, transposeItems, chunkBy and concatBytes return arrays
\* of their own
staged(p, out) ==
    [p EXCEPT !.stage = @ + 1, !.value = out[1], !.fresh = TRUE, !.events = out[2]]

\* the bytes the genomes handed to replicateGenome are drawn from
ReplicateBytes == {7, 240, 241}

InitReplicate ==
    /\ NoRoll /\ NoTrig
    /\ settings \in GenomeSettings
    /\ genomeIn \in SeqsUpTo(ReplicateBytes, MaxParentLen)
    /\ \E variant \in {CURRENT, LEGACY} :
          pipeline = [variant |-> variant, stage |-> 0, value |-> genomeIn,
                      fresh |-> FALSE, events |-> MaxEvents]
    /\ loop = None
    /\ genesOut = None /\ commandsOut = None
    /\ parentBody = None /\ childBody = None
    /\ vitals = None /\ pvitals = None /\ lastDrain = None
    /\ alphaNumSeed = None /\ prngs = None /\ outs = None /\ lastInt = None
    /\ NoHex /\ NoSpike /\ NoSim
    /\ phase = "replicating"

\* what no stage writes
ReplicateFrame ==
    UNCHANGED <<settings, vitalsVars, prngVars, genesOut, commandsOut, bodyVars,
                hexVars, spikeVars, simVars, loop, rollVars, trigVars>>

\* .into(map, mutateBits)
MutateBitsStage ==
    /\ phase = "replicating" /\ nextStage(pipeline) = "mutateBits"
    /\ \E out \in mapMutateBits(pipeline.value, pipeline.events) :
          LET after == mapped(genomeIn, pipeline, out)
          IN  genomeIn' = after.genome /\ pipeline' = after.pipeline
    /\ phase' = IF nextStage(pipeline') = "done" THEN "replicated" ELSE phase
    /\ ReplicateFrame

\* .into(filter, () => rand() >= dynamic.chanceDropByte)
DropByteStage ==
    /\ phase = "replicating" /\ nextStage(pipeline) = "dropByte"
    /\ \E out \in filterByChance(pipeline.value, pipeline.events) :
          pipeline' = staged(pipeline, out)
    /\ phase' = IF nextStage(pipeline') = "done" THEN "replicated" ELSE phase
    /\ genomeIn' = genomeIn
    /\ ReplicateFrame

\* .into(repeatItems, dynamic.chanceRepeatByte)
RepeatByteStage ==
    /\ phase = "replicating" /\ nextStage(pipeline) = "repeatByte"
    /\ \E out \in repeatItems(pipeline.value, pipeline.events) :
          pipeline' = staged(pipeline, out)
    /\ phase' = IF nextStage(pipeline') = "done" THEN "replicated" ELSE phase
    /\ genomeIn' = genomeIn
    /\ ReplicateFrame

\* .into(transposeItems, dynamic.chanceTransposeByte)
TransposeByteStage ==
    /\ phase = "replicating" /\ nextStage(pipeline) = "transposeByte"
    /\ \E out \in transposeItems(pipeline.value, pipeline.events) :
          pipeline' = staged(pipeline, out)
    /\ phase' = IF nextStage(pipeline') = "done" THEN "replicated" ELSE phase
    /\ genomeIn' = genomeIn
    /\ ReplicateFrame

\* .into(chunkBy, findControlIndexes); nothing is drawn
ChunkByStage ==
    /\ phase = "replicating" /\ nextStage(pipeline) = "chunkBy"
    /\ \E out \in {<<chunkBy(pipeline.value), pipeline.events>>} :
          pipeline' = staged(pipeline, out)
    /\ phase' = IF nextStage(pipeline') = "done" THEN "replicated" ELSE phase
    /\ genomeIn' = genomeIn
    /\ ReplicateFrame

\* .into(filter, () => rand() >= dynamic.chanceDropGene)
DropGeneStage ==
    /\ phase = "replicating" /\ nextStage(pipeline) = "dropGene"
    /\ \E out \in filterByChance(pipeline.value, pipeline.events) :
          pipeline' = staged(pipeline, out)
    /\ phase' = IF nextStage(pipeline') = "done" THEN "replicated" ELSE phase
    /\ genomeIn' = genomeIn
    /\ ReplicateFrame

\* .into(repeatItems, dynamic.chanceRepeatGene)
RepeatGeneStage ==
    /\ phase = "replicating" /\ nextStage(pipeline) = "repeatGene"
    /\ \E out \in repeatItems(pipeline.value, pipeline.events) :
          pipeline' = staged(pipeline, out)
    /\ phase' = IF nextStage(pipeline') = "done" THEN "replicated" ELSE phase
    /\ genomeIn' = genomeIn
    /\ ReplicateFrame

\* .into(transposeItems, dynamic.chanceTransposeGene)
TransposeGeneStage ==
    /\ phase = "replicating" /\ nextStage(pipeline) = "transposeGene"
    /\ \E out \in transposeItems(pipeline.value, pipeline.events) :
          pipeline' = staged(pipeline, out)
    /\ phase' = IF nextStage(pipeline') = "done" THEN "replicated" ELSE phase
    /\ genomeIn' = genomeIn
    /\ ReplicateFrame

\* .into(joinGeneArray); nothing is drawn
JoinGeneArrayStage ==
    /\ phase = "replicating" /\ nextStage(pipeline) = "joinGeneArray"
    /\ \E out \in {<<joinGeneArray(pipeline.value), pipeline.events>>} :
          pipeline' = staged(pipeline, out)
    /\ phase' = IF nextStage(pipeline') = "done" THEN "replicated" ELSE phase
    /\ genomeIn' = genomeIn
    /\ ReplicateFrame

NextReplicate ==
    \/ MutateBitsStage
    \/ DropByteStage
    \/ RepeatByteStage
    \/ TransposeByteStage
    \/ ChunkByStage
    \/ DropGeneStage
    \/ RepeatGeneStage
    \/ TransposeGeneStage
    \/ JoinGeneArrayStage

SpecReplicate == InitReplicate /\ [][NextReplicate]_vars

\* C21: replicateGenome applies bit-flip, byte drop, byte repeat, byte
\* transpose, segmentation at the control bytes, gene drop, gene repeat, gene
\* transpose and re-concatenation in this order, each to what the stage
\* before it returned.
C21_StagesInOrder ==
    [][pipeline.variant = CURRENT =>
          LET k   == pipeline'.stage
              v   == pipeline.value
              e   == pipeline.events
              out == <<pipeline'.value, pipeline'.events>>
          IN  /\ k = pipeline.stage + 1
              /\ CASE k = 1 -> out \in mapMutateBits(v, e)
                   [] k = 2 -> out \in filterByChance(v, e)
                   [] k = 3 -> out \in repeatItems(v, e)
                   [] k = 4 -> out \in transposeItems(v, e)
                   [] k = 5 -> out = <<chunkBy(v), e>>
                   [] k = 6 -> out \in filterByChance(v, e)
                   [] k = 7 -> out \in repeatItems(v, e)
                   [] k = 8 -> out \in transposeItems(v, e)
                   [] k = 9 -> out = <<joinGeneArray(v), e>>
                   [] OTHER -> FALSE]_vars

\* The pipeline has run to its end on a genome with a gene, every allowed
\* draw has fallen below its chance, and the descendant is longer.
C21_AllStagesRan ==
    /\ phase = "replicated"
    /\ pipeline.variant = CURRENT /\ pipeline.stage = 9
    /\ pipeline.events = 0
    /\ \E i \in 1..Len(genomeIn) : genomeIn[i] >= CONTROL_BYTE
    /\ Len(pipeline.value) > Len(genomeIn)

\* C22: replicateGenome never modifies its input: whatever the draws, the
\* genome handed in keeps its length and bytes, and the descendant is another
\* byte sequence.
C22_InputGenomeUntouched ==
    /\ [][genomeIn' = genomeIn]_vars
    /\ [](phase = "replicated" => pipeline.fresh)

\* A genome has been replicated into a descendant with other bytes, by the
\* legacy codec.
C22_MutatedDescendant ==
    /\ phase = "replicated"
    /\ pipeline.variant = LEGACY
    /\ Len(pipeline.value) = Len(genomeIn)
    /\ pipeline.value # genomeIn

\* A genome has been replicated into a descendant with the same bytes, by the
\* current codec.
C22_EqualDescendant ==
    /\ phase = "replicated"
    /\ pipeline.variant = CURRENT
    /\ genomeIn # <<>>
    /\ pipeline.value = genomeIn
    /\ pipeline.fresh

-----------------------------------------------------------------------------
(* SpecRepeat: the loop of repeatItems, unnamed/part_001, lines 373-384,    *)
(* one iteration at a time.  chance and the values rand() returns are       *)
(* halves, kept as their numerators: chance 0, 1/2 or 1, rand() 0 or 1/2.   *)

\* the chances handed to repeatItems and the values rand() returns, in halves
RepeatChances == {0, 1, 2}
RandHalves == {0, 1}

\* the items of the arrays handed to repeatItems and transposeItems
LoopItems == {1, 2, 3}

\* A plausible slip of the loop: a repeat steps the index back once more, to
\* the item before.
afterIterationStepsBack(l, draw) ==
    [l EXCEPT !.repeated = Append(@, l.arr[l.i + 1]),
              !.i = IF draw < l.chance THEN Max(l.i - 1, 0) ELSE l.i + 1]

\* one iteration: repeated.push(arr[i]); if (rand() < chance) i -= 1; i += 1
afterIteration(l, draw) ==
    [l EXCEPT !.repeated = Append(@, l.arr[l.i + 1]),
              !.i = IF draw < l.chance THEN (l.i - 1) + 1 ELSE l.i + 1]

\* repeatItems(arr, chance) has been called: const repeated = []; let i = 0
InitRepeat ==
    /\ NoRoll /\ NoTrig
    /\ pipeline = None
    /\ settings = None
    /\ \E arr \in SeqsUpTo(LoopItems, MaxItems), chance \in RepeatChances :
          loop = [arr |-> arr, chance |-> chance, i |-> 0, repeated |-> <<>>]
    /\ vitals = None /\ pvitals = None /\ lastDrain = None
    /\ alphaNumSeed = None /\ prngs = None /\ outs = None /\ lastInt = None
    /\ genomeIn = None /\ genesOut = None /\ commandsOut = None
    /\ parentBody = None /\ childBody = None
    /\ NoHex /\ NoSpike /\ NoSim
    /\ phase = "looping"

RepeatFrame ==
    UNCHANGED <<settings, vitalsVars, prngVars, genomeVars, bodyVars, hexVars,
                spikeVars, simVars, pipeline, rollVars, trigVars>>

\* an iteration whose draw falls below chance: the item will be pushed again.
\* The array the model holds is capped at MaxItems + MaxRepeats items.
RepeatAgain ==
    /\ phase = "looping"
    /\ loop.i < Len(loop.arr)
    /\ Len(loop.repeated) - loop.i < MaxRepeats
    /\ \E draw \in RandHalves :
          /\ draw < loop.chance
          /\ loop' = afterIteration(loop, draw)
    /\ phase' = phase
    /\ RepeatFrame

\* an iteration whose draw does not fall below chance: on to the next item
RepeatNext ==
    /\ phase = "looping"
    /\ loop.i < Len(loop.arr)
    /\ \E draw \in RandHalves :
          /\ ~(draw < loop.chance)
          /\ loop' = afterIteration(loop, draw)
    /\ phase' = phase
    /\ RepeatFrame

\* i < arr.length fails: return repeated
RepeatReturn ==
    /\ phase = "looping"
    /\ ~(loop.i < Len(loop.arr))
    /\ phase' = "returned"
    /\ loop' = loop
    /\ RepeatFrame

NextRepeat == RepeatAgain \/ RepeatNext \/ RepeatReturn

\* Fair draws: a draw that is not below chance comes up in the end, and the
\* loop goes on while it can.
SpecRepeat ==
    InitRepeat /\ [][NextRepeat]_vars
      /\ WF_vars(RepeatNext) /\ WF_vars(RepeatReturn)

\* out is arr with each item replaced by a run of one or more copies of it
RECURSIVE RunsOf(_, _)
RunsOf(arr, out) ==
    IF arr = <<>> THEN out = <<>>
    ELSE /\ out # <<>>
         /\ Head(out) = Head(arr)
         /\ \/ RunsOf(Tail(arr), Tail(out))
            \/ RunsOf(arr, Tail(out))

\* C28: repeatItems loses and reorders nothing: what it returns is arr with
\* each item replaced by a run of one or more copies, arr itself when chance
\* is 0; and for chance < 1 the loop terminates under fair draws.
C28_RepeatsRunsAndTerminates ==
    /\ [](phase = "returned" =>
             /\ RunsOf(loop.arr, loop.repeated)
             /\ Len(loop.repeated) >= Len(loop.arr)
             /\ loop.chance = 0 => loop.repeated = loop.arr)
    /\ [](loop.chance < 2 => <>(phase = "returned"))

\* repeatItems has returned an array in which the first of three items is
\* there once and a later one three times.
C28_RepeatedTwice ==
    /\ phase = "returned"
    /\ Len(loop.arr) = 3
    /\ Len(loop.repeated) = 5
    /\ loop.repeated[2] # loop.repeated[1]
    /\ \E k \in 2..3 : loop.repeated[k] = loop.repeated[k + 1]
                         /\ loop.repeated[k + 1] = loop.repeated[k + 2]

\* With chance 1 every draw is below chance and the loop is still at the
\* first item after MaxRepeats repeats.
C28_NeverLeavesFirstItem ==
    /\ phase = "looping"
    /\ loop.chance = 2
    /\ loop.i = 0
    /\ Len(loop.repeated) = MaxRepeats

-----------------------------------------------------------------------------
(* SpecTranspose: the two loops of transposeItems, unnamed/part_001, lines  *)
(* 393-410, one iteration at a time, with the chances and draws of          *)
(* SpecRepeat.  kept is the list of the items the first loop did not select.*)

\* transposeItems(arr, chance) has been called: both lists are empty
InitTranspose ==
    /\ NoRoll /\ NoTrig
    /\ pipeline = None
    /\ settings = None
    /\ \E arr \in SeqsUpTo(LoopItems, MaxItems), chance \in RepeatChances :
          loop = [arr |-> arr, chance |-> chance, i |-> 0, transposed |-> <<>>,
                  toTranspose |-> <<>>, kept |-> <<>>, j |-> 0]
    /\ vitals = None /\ pvitals = None /\ lastDrain = None
    /\ alphaNumSeed = None /\ prngs = None /\ outs = None /\ lastInt = None
    /\ genomeIn = None /\ genesOut = None /\ commandsOut = None
    /\ parentBody = None /\ childBody = None
    /\ NoHex /\ NoSpike /\ NoSim
    /\ phase = "selecting"

\* first loop, rand() < chance: toTranspose.push(item)
SelectItem ==
    /\ phase = "selecting"
    /\ loop.i < Len(loop.arr)
    /\ \E draw \in RandHalves : draw < loop.chance
    /\ loop' = [loop EXCEPT !.toTranspose = Append(@, loop.arr[loop.i + 1]),
                            !.i = @ + 1]
    /\ phase' = phase
    /\ RepeatFrame

\* first loop, otherwise: transposed.push(item)
KeepItem ==
    /\ phase = "selecting"
    /\ loop.i < Len(loop.arr)
    /\ \E draw \in RandHalves : ~(draw < loop.chance)
    /\ loop' = [loop EXCEPT !.transposed = Append(@, loop.arr[loop.i + 1]),
                            !.kept = Append(@, loop.arr[loop.i + 1]),
                            !.i = @ + 1]
    /\ phase' = phase
    /\ RepeatFrame

\* the first loop is over
StartSplicing ==
    /\ phase = "selecting"
    /\ ~(loop.i < Len(loop.arr))
    /\ phase' = "splicing"
    /\ loop' = loop
    /\ RepeatFrame

\* second loop: transposed.splice(randInt(0, transposed.length), 0, item);
\* randInt gives 0..length-1, or length when rand() returns 1
SpliceItem ==
    /\ phase = "splicing"
    /\ loop.j < Len(loop.toTranspose)
    /\ \E at \in 0..Len(loop.transposed) :
          loop' = [loop EXCEPT
                     !.transposed = spliceIn(@, at, loop.toTranspose[loop.j + 1]),
                     !.j = @ + 1]
    /\ phase' = phase
    /\ RepeatFrame

\* return transposed
TransposeReturn ==
    /\ phase = "splicing"
    /\ ~(loop.j < Len(loop.toTranspose))
    /\ phase' = "transposed"
    /\ loop' = loop
    /\ RepeatFrame

NextTranspose ==
    SelectItem \/ KeepItem \/ StartSplicing \/ SpliceItem \/ TransposeReturn

SpecTranspose == InitTranspose /\ [][NextTranspose]_vars

\* the number of times item is in arr
countOf(arr, item) == Cardinality({k \in 1..Len(arr) : arr[k] = item})

\* sub can be had from arr by taking items out
RECURSIVE IsSubsequence(_, _)
IsSubsequence(sub, arr) ==
    IF sub = <<>> THEN TRUE
    ELSE IF arr = <<>> THEN FALSE
    ELSE \/ Head(sub) = Head(arr) /\ IsSubsequence(Tail(sub), Tail(arr))
         \/ IsSubsequence(sub, Tail(arr))

\* C27: for every outcome of the draws, what transposeItems returns has the
\* length of arr and each item as many times as arr, and the items the first
\* loop did not select are in it in the order they had in arr.
C27_TransposedIsPermutation ==
    phase = "transposed" =>
       /\ Len(loop.transposed) = Len(loop.arr)
       /\ \A item \in LoopItems :
             countOf(loop.transposed, item) = countOf(loop.arr, item)
       /\ IsSubsequence(loop.kept, loop.arr)
       /\ IsSubsequence(loop.kept, loop.transposed)

\* transposeItems has returned three different items in another order: the
\* first was selected and spliced in between the two that were kept.
C27_FirstItemMovedToMiddle ==
    /\ phase = "transposed"
    /\ Len(loop.arr) = 3
    /\ loop.arr[1] # loop.arr[2] /\ loop.arr[2] # loop.arr[3]
    /\ loop.arr[1] # loop.arr[3]
    /\ loop.toTranspose = <<loop.arr[1]>>
    /\ loop.transposed = <<loop.arr[2], loop.arr[1], loop.arr[3]>>

-----------------------------------------------------------------------------
(* SpecRoll: randControlByte, unnamed/part_001, lines 215-250.  The rolls   *)
(* and the maxRoll thresholds are whole numbers of steps of                 *)
(* 1 / (2 * sum of the chances).  The doubles chance * ratioToOne add up to *)
(* 1 or to the double just below it (chances 1, 1, 1, 2, 1 give             *)
(* 0.9999999999999999); short is 1 when they fall short, and the thresholds *)
(* that stand for the full sum are then one step below 1.                   *)

\* BYTES: the control bytes with their configured chances, in this order
BYTES(fixed) ==
    <<[byte |-> SIZE_GENE,  chance |-> fixed.percentSizeGenes],
      [byte |-> SPIKE_GENE, chance |-> fixed.percentSpikeGenes],
      [byte |-> RED_GENE,   chance |-> fixed.percentRedGenes],
      [byte |-> GREEN_GENE, chance |-> fixed.percentGreenGenes],
      [byte |-> BLUE_GENE,  chance |-> fixed.percentBlueGenes]>>

\* BYTES.reduce((sum, { chance }) => sum + chance, 0)
chanceSum(fixed) == SumSeq([i \in 1..5 |-> BYTES(fixed)[i].chance])

\* the number of steps in one: rolls are 0 .. rollSteps - 1
rollSteps(fixed) == 2 * chanceSum(fixed)

\* dynamic.controlByteRolls: maxRoll = chance * ratioToOne + rolls[i].maxRoll
controlByteRolls(fixed, short) ==
    [i \in 1..5 |->
        LET reached == SumSeq([j \in 1..i |-> BYTES(fixed)[j].chance])
        IN  [byte    |-> BYTES(fixed)[i].byte,
             maxRoll |-> IF reached = chanceSum(fixed)
                         THEN rollSteps(fixed) - short
                         ELSE 2 * reached]]

\* controlByteRolls.find(({ maxRoll }) => roll < maxRoll): the index, or 0
RECURSIVE findRoll(_, _, _)
findRoll(rolls, roll, i) ==
    IF i > Len(rolls) THEN 0
    ELSE IF roll < rolls[i].maxRoll THEN i
    ELSE findRoll(rolls, roll, i + 1)

\* A plausible slip of randControlByte: a roll equal to a threshold matches it.
RECURSIVE findRollInclusive(_, _, _)
findRollInclusive(rolls, roll, i) ==
    IF i > Len(rolls) THEN 0
    ELSE IF roll <= rolls[i].maxRoll THEN i
    ELSE findRollInclusive(rolls, roll, i + 1)

randControlByteInclusive(rolls, roll) ==
    LET found == findRollInclusive(rolls, roll, 1)
    IN  IF found # 0 THEN rolls[found].byte ELSE rolls[Len(rolls)].byte

\* randControlByte with roll the outcome of rand()
randControlByte(rolls, roll) ==
    LET found == findRoll(rolls, roll, 1)
    IN  IF found # 0 THEN rolls[found].byte ELSE rolls[Len(rolls)].byte

\* settings.genome: the chances of the five gene types, not all zero
RollSettings ==
    {fixed \in [percentSizeGenes : 0..MaxChance, percentSpikeGenes : 0..MaxChance,
                percentRedGenes : 0..MaxChance, percentGreenGenes : 0..MaxChance,
                percentBlueGenes : 0..MaxChance] : chanceSum(fixed) > 0}

\* The update listener has run.
InitRoll ==
    /\ NoPipe /\ NoTrig
    /\ settings \in RollSettings
    /\ \E short \in {0, 1} :
          rolled = [controlByteRolls |-> controlByteRolls(settings, short),
                    roll |-> None, byte |-> None]
    /\ genomeIn = None /\ genesOut = None /\ commandsOut = None
    /\ parentBody = None /\ childBody = None
    /\ vitals = None /\ pvitals = None /\ lastDrain = None
    /\ alphaNumSeed = None /\ prngs = None /\ outs = None /\ lastInt = None
    /\ NoHex /\ NoSpike /\ NoSim
    /\ phase = "listening"

\* randControlByte(), with roll = rand() in [0, 1)
RandControlByte(roll) ==
    /\ phase \in {"listening", "rolled"}
    /\ rolled' = [rolled EXCEPT
                     !.roll = roll,
                     !.byte = randControlByte(rolled.controlByteRolls, roll)]
    /\ phase' = "rolled"
    /\ UNCHANGED <<settings, vitalsVars, prngVars, genomeVars, bodyVars, hexVars,
                   spikeVars, simVars, pipeVars, trigVars>>

NextRoll == \E roll \in 0..(rollSteps(settings) - 1) : RandControlByte(roll)

SpecRoll == InitRoll /\ [][NextRoll]_vars

\* C23: randControlByte returns the byte of the first type, in the order F0,
\* F1, F2, F3, F4, whose cumulative threshold is strictly above the roll, and
\* the last type when none is; the thresholds never decrease and the byte is
\* one of the five control bytes.
C23_FirstThresholdAboveRoll ==
    LET rolls == rolled.controlByteRolls
        above == {i \in 1..5 : rolls[i].maxRoll > rolled.roll}
    IN  /\ \A i \in 1..4 : rolls[i].maxRoll <= rolls[i + 1].maxRoll
        /\ \A i \in 1..5 : rolls[i].byte = CONTROL_BYTE + i - 1
        /\ phase = "rolled" =>
              /\ rolled.byte \in CONTROL_BYTE..(CONTROL_BYTE + 4)
              /\ above # {} =>
                    \E i \in above : /\ \A j \in above : i <= j
                                     /\ rolled.byte = CONTROL_BYTE + i - 1
              /\ above = {} => rolled.byte = CONTROL_BYTE + 4

\* The roll equals the thresholds of two types in a row, the second with
\* chance 0, and the type after them has been returned.
C23_RollOnThreshold ==
    /\ phase = "rolled"
    /\ \E i \in 1..3 :
          /\ rolled.controlByteRolls[i].maxRoll = rolled.roll
          /\ rolled.controlByteRolls[i + 1].maxRoll = rolled.roll
          /\ rolled.byte = CONTROL_BYTE + i + 1

\* No threshold is above the roll, and the last type has been returned.
C23_FellBackToLast ==
    /\ phase = "rolled"
    /\ \A i \in 1..5 : rolled.controlByteRolls[i].maxRoll <= rolled.roll
    /\ rolled.byte = BLUE_GENE

-----------------------------------------------------------------------------
(* Trigonometry by lookup table: unnamed/part_001, lines 438-594
   (app/utils/math.js).  Angles are in turns and kept as ratios <<n, d>>
   with d > 0.  A table entry v is kept as 2 * floor(v * scale) when
   v * scale is a whole number and 2 * floor(v * scale) + 1 otherwise, so
   that the floor of a product with a whole distance, and the sign of an
   entry as small as sin(pi) = 1.2e-16, are those of the double. *)

LUT_RES == 1024
HALF_LUT_RES == LUT_RES \div 2

\* the entries of SIN and COS are in units of 1 / TRIG_SCALE
TRIG_SCALE == 2000000

\* the entries of ASIN, divided by PI_2, are in units of 1 / TURN_SCALE turns
TURN_SCALE == 2048000

SIN_LUT ==
    <<
       0, 12271, 24543, 36813, 49083, 61349, 73615, 85877,
       98135, 110391, 122641, 134887, 147129, 159365, 171595, 183817,
       196035, 208243, 220445, 232637, 244821, 256997, 269161, 281317,
       293461, 305595, 317717, 329827, 341923, 354009, 366079, 378137,
       390181, 402209, 414223, 426221, 438203, 450167, 462117, 474047,
       485961, 497855, 509731, 521589, 533425, 545243, 557039, 568815,
       580569, 592301, 604011, 615699, 627363, 639005, 650621, 662213,
       673779, 685321, 696837, 708327, 719791, 731225, 742635, 754015,
       765367, 776691, 787985, 799249, 810483, 821687, 832859, 844001,
       855111, 866187, 877233, 888245, 899223, 910167, 921077, 931953,
       942793, 953599, 964367, 975101, 985797, 996455, 1007077, 1017661,
       1028205, 1038711, 1049179, 1059607, 1069995, 1080343, 1090649, 1100915,
       1111141, 1121323, 1131463, 1141561, 1151617, 1161627, 1171595, 1181519,
       1191399, 1201233, 1211023, 1220765, 1230463, 1240115, 1249719, 1259277,
       1268787, 1278249, 1287663, 1297029, 1306345, 1315613, 1324831, 1333999,
       1343117, 1352185, 1361201, 1370167, 1379081, 1387943, 1396753, 1405509,
       1414213, 1422865, 1431461, 1440005, 1448495, 1456929, 1465309, 1473633,
       1481903, 1490115, 1498273, 1506373, 1514417, 1522405, 1530335, 1538207,
       1546021, 1553777, 1561475, 1569113, 1576693, 1584213, 1591673, 1599075,
       1606415, 1613695, 1620915, 1628073, 1635169, 1642205, 1649179, 1656091,
       1662939, 1669725, 1676449, 1683109, 1689707, 1696241, 1702711, 1709115,
       1715457, 1721733, 1727945, 1734093, 1740173, 1746189, 1752141, 1758025,
       1763843, 1769595, 1775279, 1780897, 1786449, 1791933, 1797349, 1802697,
       1807979, 1813191, 1818335, 1823413, 1828419, 1833359, 1838227, 1843029,
       1847759, 1852421, 1857013, 1861533, 1865985, 1870367, 1874679, 1878919,
       1883089, 1887187, 1891215, 1895171, 1899057, 1902871, 1906613, 1910283,
       1913881, 1917407, 1920861, 1924243, 1927553, 1930789, 1933953, 1937045,
       1940063, 1943007, 1945879, 1948679, 1951405, 1954057, 1956635, 1959139,
       1961571, 1963927, 1966211, 1968421, 1970555, 1972617, 1974603, 1976515,
       1978353, 1980117, 1981805, 1983419, 1984959, 1986423, 1987813, 1989129,
       1990369, 1991535, 1992625, 1993641, 1994581, 1995447, 1996237, 1996951,
       1997591, 1998155, 1998645, 1999059, 1999397, 1999661, 1999849, 1999963,
       2000000, 1999963, 1999849, 1999661, 1999397, 1999059, 1998645, 1998155,
       1997591, 1996951, 1996237, 1995447, 1994581, 1993641, 1992625, 1991535,
       1990369, 1989129, 1987813, 1986423, 1984959, 1983419, 1981805, 1980117,
       1978353, 1976515, 1974603, 1972617, 1970555, 1968421, 1966211, 1963927,
       1961571, 1959139, 1956635, 1954057, 1951405, 1948679, 1945879, 1943007,
       1940063, 1937045, 1933953, 1930789, 1927553, 1924243, 1920861, 1917407,
       1913881, 1910283, 1906613, 1902871, 1899057, 1895171, 1891215, 1887187,
       1883089, 1878919, 1874679, 1870367, 1865985, 1861533, 1857013, 1852421,
       1847759, 1843029, 1838227, 1833359, 1828419, 1823413, 1818335, 1813191,
       1807979, 1802697, 1797349, 1791933, 1786449, 1780897, 1775279, 1769595,
       1763843, 1758025, 1752141, 1746189, 1740173, 1734093, 1727945, 1721733,
       1715457, 1709115, 1702711, 1696241, 1689707, 1683109, 1676449, 1669725,
       1662939, 1656091, 1649179, 1642205, 1635169, 1628073, 1620915, 1613695,
       1606415, 1599075, 1591673, 1584213, 1576693, 1569113, 1561475, 1553777,
       1546021, 1538207, 1530335, 1522405, 1514417, 1506373, 1498273, 1490115,
       1481903, 1473633, 1465309, 1456929, 1448495, 1440005, 1431461, 1422865,
       1414213, 1405509, 1396753, 1387943, 1379081, 1370167, 1361201, 1352185,
       1343117, 1333999, 1324831, 1315613, 1306345, 1297029, 1287663, 1278249,
       1268787, 1259277, 1249719, 1240115, 1230463, 1220765, 1211023, 1201233,
       1191399, 1181519, 1171595, 1161627, 1151617, 1141561, 1131463, 1121323,
       1111141, 1100915, 1090649, 1080343, 1069995, 1059607, 1049179, 1038711,
       1028205, 1017661, 1007077, 996455, 985797, 975101, 964367, 953599,
       942793, 931953, 921077, 910167, 899223, 888245, 877233, 866187,
       855111, 844001, 832859, 821687, 810483, 799249, 787985, 776691,
       765367, 754015, 742635, 731225, 719791, 708327, 696837, 685321,
       673779, 662213, 650621, 639005, 627363, 615699, 604011, 592301,
       580569, 568815, 557039, 545243, 533425, 521589, 509731, 497855,
       485961, 474047, 462117, 450167, 438203, 426221, 414223, 402209,
       390181, 378137, 366079, 354009, 341923, 329827, 317717, 305595,
       293461, 281317, 269161, 256997, 244821, 232637, 220445, 208243,
       196035, 183817, 171595, 159365, 147129, 134887, 122641, 110391,
       98135, 85877, 73615, 61349, 49083, 36813, 24543, 12271,
       1, -12271, -24543, -36813, -49083, -61349, -73615, -85877,
       -98135, -110391, -122641, -134887, -147129, -159365, -171595, -183817,
       -196035, -208243, -220445, -232637, -244821, -256997, -269161, -281317,
       -293461, -305595, -317717, -329827, -341923, -354009, -366079, -378137,
       -390181, -402209, -414223, -426221, -438203, -450167, -462117, -474047,
       -485961, -497855, -509731, -521589, -533425, -545243, -557039, -568815,
       -580569, -592301, -604011, -615699, -627363, -639005, -650621, -662213,
       -673779, -685321, -696837, -708327, -719791, -731225, -742635, -754015,
       -765367, -776691, -787985, -799249, -810483, -821687, -832859, -844001,
       -855111, -866187, -877233, -888245, -899223, -910167, -921077, -931953,
       -942793, -953599, -964367, -975101, -985797, -996455, -1007077, -1017661,
       -1028205, -1038711, -1049179, -1059607, -1069995, -1080343, -1090649, -1100915,
       -1111141, -1121323, -1131463, -1141561, -1151617, -1161627, -1171595, -1181519,
       -1191399, -1201233, -1211023, -1220765, -1230463, -1240115, -1249719, -1259277,
       -1268787, -1278249, -1287663, -1297029, -1306345, -1315613, -1324831, -1333999,
       -1343117, -1352185, -1361201, -1370167, -1379081, -1387943, -1396753, -1405509,
       -1414213, -1422865, -1431461, -1440005, -1448495, -1456929, -1465309, -1473633,
       -1481903, -1490115, -1498273, -1506373, -1514417, -1522405, -1530335, -1538207,
       -1546021, -1553777, -1561475, -1569113, -1576693, -1584213, -1591673, -1599075,
       -1606415, -1613695, -1620915, -1628073, -1635169, -1642205, -1649179, -1656091,
       -1662939, -1669725, -1676449, -1683109, -1689707, -1696241, -1702711, -1709115,
       -1715457, -1721733, -1727945, -1734093, -1740173, -1746189, -1752141, -1758025,
       -1763843, -1769595, -1775279, -1780897, -1786449, -1791933, -1797349, -1802697,
       -1807979, -1813191, -1818335, -1823413, -1828419, -1833359, -1838227, -1843029,
       -1847759, -1852421, -1857013, -1861533, -1865985, -1870367, -1874679, -1878919,
       -1883089, -1887187, -1891215, -1895171, -1899057, -1902871, -1906613, -1910283,
       -1913881, -1917407, -1920861, -1924243, -1927553, -1930789, -1933953, -1937045,
       -1940063, -1943007, -1945879, -1948679, -1951405, -1954057, -1956635, -1959139,
       -1961571, -1963927, -1966211, -1968421, -1970555, -1972617, -1974603, -1976515,
       -1978353, -1980117, -1981805, -1983419, -1984959, -1986423, -1987813, -1989129,
       -1990369, -1991535, -1992625, -1993641, -1994581, -1995447, -1996237, -1996951,
       -1997591, -1998155, -1998645, -1999059, -1999397, -1999661, -1999849, -1999963,
       -2000000, -1999963, -1999849, -1999661, -1999397, -1999059, -1998645, -1998155,
       -1997591, -1996951, -1996237, -1995447, -1994581, -1993641, -1992625, -1991535,
       -1990369, -1989129, -1987813, -1986423, -1984959, -1983419, -1981805, -1980117,
       -1978353, -1976515, -1974603, -1972617, -1970555, -1968421, -1966211, -1963927,
       -1961571, -1959139, -1956635, -1954057, -1951405, -1948679, -1945879, -1943007,
       -1940063, -1937045, -1933953, -1930789, -1927553, -1924243, -1920861, -1917407,
       -1913881, -1910283, -1906613, -1902871, -1899057, -1895171, -1891215, -1887187,
       -1883089, -1878919, -1874679, -1870367, -1865985, -1861533, -1857013, -1852421,
       -1847759, -1843029, -1838227, -1833359, -1828419, -1823413, -1818335, -1813191,
       -1807979, -1802697, -1797349, -1791933, -1786449, -1780897, -1775279, -1769595,
       -1763843, -1758025, -1752141, -1746189, -1740173, -1734093, -1727945, -1721733,
       -1715457, -1709115, -1702711, -1696241, -1689707, -1683109, -1676449, -1669725,
       -1662939, -1656091, -1649179, -1642205, -1635169, -1628073, -1620915, -1613695,
       -1606415, -1599075, -1591673, -1584213, -1576693, -1569113, -1561475, -1553777,
       -1546021, -1538207, -1530335, -1522405, -1514417, -1506373, -1498273, -1490115,
       -1481903, -1473633, -1465309, -1456929, -1448495, -1440005, -1431461, -1422865,
       -1414213, -1405509, -1396753, -1387943, -1379081, -1370167, -1361201, -1352185,
       -1343117, -1333999, -1324831, -1315613, -1306345, -1297029, -1287663, -1278249,
       -1268787, -1259277, -1249719, -1240115, -1230463, -1220765, -1211023, -1201233,
       -1191399, -1181519, -1171595, -1161627, -1151617, -1141561, -1131463, -1121323,
       -1111141, -1100915, -1090649, -1080343, -1069995, -1059607, -1049179, -1038711,
       -1028205, -1017661, -1007077, -996455, -985797, -975101, -964367, -953599,
       -942793, -931953, -921077, -910167, -899223, -888245, -877233, -866187,
       -855111, -844001, -832859, -821687, -810483, -799249, -787985, -776691,
       -765367, -754015, -742635, -731225, -719791, -708327, -696837, -685321,
       -673779, -662213, -650621, -639005, -627363, -615699, -604011, -592301,
       -580569, -568815, -557039, -545243, -533425, -521589, -509731, -497855,
       -485961, -474047, -462117, -450167, -438203, -426221, -414223, -402209,
       -390181, -378137, -366079, -354009, -341923, -329827, -317717, -305595,
       -293461, -281317, -269161, -256997, -244821, -232637, -220445, -208243,
       -196035, -183817, -171595, -159365, -147129, -134887, -122641, -110391,
       -98135, -85877, -73615, -61349, -49083, -36813, -24543, -12271
    >>

COS_LUT ==
    <<
       2000000, 1999963, 1999849, 1999661, 1999397, 1999059, 1998645, 1998155,
       1997591, 1996951, 1996237, 1995447, 1994581, 1993641, 1992625, 1991535,
       1990369, 1989129, 1987813, 1986423, 1984959, 1983419, 1981805, 1980117,
       1978353, 1976515, 1974603, 1972617, 1970555, 1968421, 1966211, 1963927,
       1961571, 1959139, 1956635, 1954057, 1951405, 1948679, 1945879, 1943007,
       1940063, 1937045, 1933953, 1930789, 1927553, 1924243, 1920861, 1917407,
       1913881, 1910283, 1906613, 1902871, 1899057, 1895171, 1891215, 1887187,
       1883089, 1878919, 1874679, 1870367, 1865985, 1861533, 1857013, 1852421,
       1847759, 1843029, 1838227, 1833359, 1828419, 1823413, 1818335, 1813191,
       1807979, 1802697, 1797349, 1791933, 1786449, 1780897, 1775279, 1769595,
       1763843, 1758025, 1752141, 1746189, 1740173, 1734093, 1727945, 1721733,
       1715457, 1709115, 1702711, 1696241, 1689707, 1683109, 1676449, 1669725,
       1662939, 1656091, 1649179, 1642205, 1635169, 1628073, 1620915, 1613695,
       1606415, 1599075, 1591673, 1584213, 1576693, 1569113, 1561475, 1553777,
       1546021, 1538207, 1530335, 1522405, 1514417, 1506373, 1498273, 1490115,
       1481903, 1473633, 1465309, 1456929, 1448495, 1440005, 1431461, 1422865,
       1414213, 1405509, 1396753, 1387943, 1379081, 1370167, 1361201, 1352185,
       1343117, 1333999, 1324831, 1315613, 1306345, 1297029, 1287663, 1278249,
       1268787, 1259277, 1249719, 1240115, 1230463, 1220765, 1211023, 1201233,
       1191399, 1181519, 1171595, 1161627, 1151617, 1141561, 1131463, 1121323,
       1111141, 1100915, 1090649, 1080343, 1069995, 1059607, 1049179, 1038711,
       1028205, 1017661, 1007077, 996455, 985797, 975101, 964367, 953599,
       942793, 931953, 921077, 910167, 899223, 888245, 877233, 866187,
       855111, 844001, 832859, 821687, 810483, 799249, 787985, 776691,
       765367, 754015, 742635, 731225, 719791, 708327, 696837, 685321,
       673779, 662213, 650621, 639005, 627363, 615699, 604011, 592301,
       580569, 568815, 557039, 545243, 533425, 521589, 509731, 497855,
       485961, 474047, 462117, 450167, 438203, 426221, 414223, 402209,
       390181, 378137, 366079, 354009, 341923, 329827, 317717, 305595,
       293461, 281317, 269161, 256997, 244821, 232637, 220445, 208243,
       196035, 183817, 171595, 159365, 147129, 134887, 122641, 110391,
       98135, 85877, 73615, 61349, 49083, 36813, 24543, 12271,
       1, -12271, -24543, -36813, -49083, -61349, -73615, -85877,
       -98135, -110391, -122641, -134887, -147129, -159365, -171595, -183817,
       -196035, -208243, -220445, -232637, -244821, -256997, -269161, -281317,
       -293461, -305595, -317717, -329827, -341923, -354009, -366079, -378137,
       -390181, -402209, -414223, -426221, -438203, -450167, -462117, -474047,
       -485961, -497855, -509731, -521589, -533425, -545243, -557039, -568815,
       -580569, -592301, -604011, -615699, -627363, -639005, -650621, -662213,
       -673779, -685321, -696837, -708327, -719791, -731225, -742635, -754015,
       -765367, -776691, -787985, -799249, -810483, -821687, -832859, -844001,
       -855111, -866187, -877233, -888245, -899223, -910167, -921077, -931953,
       -942793, -953599, -964367, -975101, -985797, -996455, -1007077, -1017661,
       -1028205, -1038711, -1049179, -1059607, -1069995, -1080343, -1090649, -1100915,
       -1111141, -1121323, -1131463, -1141561, -1151617, -1161627, -1171595, -1181519,
       -1191399, -1201233, -1211023, -1220765, -1230463, -1240115, -1249719, -1259277,
       -1268787, -1278249, -1287663, -1297029, -1306345, -1315613, -1324831, -1333999,
       -1343117, -1352185, -1361201, -1370167, -1379081, -1387943, -1396753, -1405509,
       -1414213, -1422865, -1431461, -1440005, -1448495, -1456929, -1465309, -1473633,
       -1481903, -1490115, -1498273, -1506373, -1514417, -1522405, -1530335, -1538207,
       -1546021, -1553777, -1561475, -1569113, -1576693, -1584213, -1591673, -1599075,
       -1606415, -1613695, -1620915, -1628073, -1635169, -1642205, -1649179, -1656091,
       -1662939, -1669725, -1676449, -1683109, -1689707, -1696241, -1702711, -1709115,
       -1715457, -1721733, -1727945, -1734093, -1740173, -1746189, -1752141, -1758025,
       -1763843, -1769595, -1775279, -1780897, -1786449, -1791933, -1797349, -1802697,
       -1807979, -1813191, -1818335, -1823413, -1828419, -1833359, -1838227, -1843029,
       -1847759, -1852421, -1857013, -1861533, -1865985, -1870367, -1874679, -1878919,
       -1883089, -1887187, -1891215, -1895171, -1899057, -1902871, -1906613, -1910283,
       -1913881, -1917407, -1920861, -1924243, -1927553, -1930789, -1933953, -1937045,
       -1940063, -1943007, -1945879, -1948679, -1951405, -1954057, -1956635, -1959139,
       -1961571, -1963927, -1966211, -1968421, -1970555, -1972617, -1974603, -1976515,
       -1978353, -1980117, -1981805, -1983419, -1984959, -1986423, -1987813, -1989129,
       -1990369, -1991535, -1992625, -1993641, -1994581, -1995447, -1996237, -1996951,
       -1997591, -1998155, -1998645, -1999059, -1999397, -1999661, -1999849, -1999963,
       -2000000, -1999963, -1999849, -1999661, -1999397, -1999059, -1998645, -1998155,
       -1997591, -1996951, -1996237, -1995447, -1994581, -1993641, -1992625, -1991535,
       -1990369, -1989129, -1987813, -1986423, -1984959, -1983419, -1981805, -1980117,
       -1978353, -1976515, -1974603, -1972617, -1970555, -1968421, -1966211, -1963927,
       -1961571, -1959139, -1956635, -1954057, -1951405, -1948679, -1945879, -1943007,
       -1940063, -1937045, -1933953, -1930789, -1927553, -1924243, -1920861, -1917407,
       -1913881, -1910283, -1906613, -1902871, -1899057, -1895171, -1891215, -1887187,
       -1883089, -1878919, -1874679, -1870367, -1865985, -1861533, -1857013, -1852421,
       -1847759, -1843029, -1838227, -1833359, -1828419, -1823413, -1818335, -1813191,
       -1807979, -1802697, -1797349, -1791933, -1786449, -1780897, -1775279, -1769595,
       -1763843, -1758025, -1752141, -1746189, -1740173, -1734093, -1727945, -1721733,
       -1715457, -1709115, -1702711, -1696241, -1689707, -1683109, -1676449, -1669725,
       -1662939, -1656091, -1649179, -1642205, -1635169, -1628073, -1620915, -1613695,
       -1606415, -1599075, -1591673, -1584213, -1576693, -1569113, -1561475, -1553777,
       -1546021, -1538207, -1530335, -1522405, -1514417, -1506373, -1498273, -1490115,
       -1481903, -1473633, -1465309, -1456929, -1448495, -1440005, -1431461, -1422865,
       -1414213, -1405509, -1396753, -1387943, -1379081, -1370167, -1361201, -1352185,
       -1343117, -1333999, -1324831, -1315613, -1306345, -1297029, -1287663, -1278249,
       -1268787, -1259277, -1249719, -1240115, -1230463, -1220765, -1211023, -1201233,
       -1191399, -1181519, -1171595, -1161627, -1151617, -1141561, -1131463, -1121323,
       -1111141, -1100915, -1090649, -1080343, -1069995, -1059607, -1049179, -1038711,
       -1028205, -1017661, -1007077, -996455, -985797, -975101, -964367, -953599,
       -942793, -931953, -921077, -910167, -899223, -888245, -877233, -866187,
       -855111, -844001, -832859, -821687, -810483, -799249, -787985, -776691,
       -765367, -754015, -742635, -731225, -719791, -708327, -696837, -685321,
       -673779, -662213, -650621, -639005, -627363, -615699, -604011, -592301,
       -580569, -568815, -557039, -545243, -533425, -521589, -509731, -497855,
       -485961, -474047, -462117, -450167, -438203, -426221, -414223, -402209,
       -390181, -378137, -366079, -354009, -341923, -329827, -317717, -305595,
       -293461, -281317, -269161, -256997, -244821, -232637, -220445, -208243,
       -196035, -183817, -171595, -159365, -147129, -134887, -122641, -110391,
       -98135, -85877, -73615, -61349, -49083, -36813, -24543, -12271,
       -1, 12271, 24543, 36813, 49083, 61349, 73615, 85877,
       98135, 110391, 122641, 134887, 147129, 159365, 171595, 183817,
       196035, 208243, 220445, 232637, 244821, 256997, 269161, 281317,
       293461, 305595, 317717, 329827, 341923, 354009, 366079, 378137,
       390181, 402209, 414223, 426221, 438203, 450167, 462117, 474047,
       485961, 497855, 509731, 521589, 533425, 545243, 557039, 568815,
       580569, 592301, 604011, 615699, 627363, 639005, 650621, 662213,
       673779, 685321, 696837, 708327, 719791, 731225, 742635, 754015,
       765367, 776691, 787985, 799249, 810483, 821687, 832859, 844001,
       855111, 866187, 877233, 888245, 899223, 910167, 921077, 931953,
       942793, 953599, 964367, 975101, 985797, 996455, 1007077, 1017661,
       1028205, 1038711, 1049179, 1059607, 1069995, 1080343, 1090649, 1100915,
       1111141, 1121323, 1131463, 1141561, 1151617, 1161627, 1171595, 1181519,
       1191399, 1201233, 1211023, 1220765, 1230463, 1240115, 1249719, 1259277,
       1268787, 1278249, 1287663, 1297029, 1306345, 1315613, 1324831, 1333999,
       1343117, 1352185, 1361201, 1370167, 1379081, 1387943, 1396753, 1405509,
       1414213, 1422865, 1431461, 1440005, 1448495, 1456929, 1465309, 1473633,
       1481903, 1490115, 1498273, 1506373, 1514417, 1522405, 1530335, 1538207,
       1546021, 1553777, 1561475, 1569113, 1576693, 1584213, 1591673, 1599075,
       1606415, 1613695, 1620915, 1628073, 1635169, 1642205, 1649179, 1656091,
       1662939, 1669725, 1676449, 1683109, 1689707, 1696241, 1702711, 1709115,
       1715457, 1721733, 1727945, 1734093, 1740173, 1746189, 1752141, 1758025,
       1763843, 1769595, 1775279, 1780897, 1786449, 1791933, 1797349, 1802697,
       1807979, 1813191, 1818335, 1823413, 1828419, 1833359, 1838227, 1843029,
       1847759, 1852421, 1857013, 1861533, 1865985, 1870367, 1874679, 1878919,
       1883089, 1887187, 1891215, 1895171, 1899057, 1902871, 1906613, 1910283,
       1913881, 1917407, 1920861, 1924243, 1927553, 1930789, 1933953, 1937045,
       1940063, 1943007, 1945879, 1948679, 1951405, 1954057, 1956635, 1959139,
       1961571, 1963927, 1966211, 1968421, 1970555, 1972617, 1974603, 1976515,
       1978353, 1980117, 1981805, 1983419, 1984959, 1986423, 1987813, 1989129,
       1990369, 1991535, 1992625, 1993641, 1994581, 1995447, 1996237, 1996951,
       1997591, 1998155, 1998645, 1999059, 1999397, 1999661, 1999849, 1999963
    >>

ASIN_LUT ==
    <<
       -512000, -491625, -483181, -476697, -471229, -466411, -462051, -458039,
       -454305, -450795, -447473, -444313, -441291, -438393, -435601, -432907,
       -430299, -427771, -425315, -422925, -420595, -418323, -416103, -413931,
       -411805, -409721, -407679, -405675, -403705, -401769, -399867, -397995,
       -396151, -394335, -392545, -390781, -389041, -387325, -385629, -383957,
       -382303, -380671, -379055, -377459, -375881, -374321, -372775, -371247,
       -369733, -368235, -366751, -365281, -363825, -362381, -360951, -359533,
       -358127, -356733, -355349, -353977, -352617, -351267, -349927, -348597,
       -347279, -345967, -344667, -343375, -342093, -340819, -339553, -338295,
       -337047, -335805, -334573, -333347, -332129, -330919, -329715, -328519,
       -327329, -326147, -324969, -323801, -322637, -321481, -320329, -319185,
       -318047, -316913, -315787, -314665, -313549, -312439, -311333, -310235,
       -309139, -308049, -306965, -305885, -304811, -303741, -302677, -301615,
       -300559, -299507, -298461, -297419, -296379, -295345, -294315, -293289,
       -292267, -291249, -290235, -289225, -288219, -287217, -286219, -285223,
       -284231, -283243, -282259, -281279, -280301, -279327, -278357, -277389,
       -276425, -275465, -274507, -273553, -272601, -271653, -270707, -269765,
       -268825, -267889, -266955, -266025, -265097, -264171, -263249, -262329,
       -261413, -260497, -259587, -258677, -257771, -256867, -255965, -255067,
       -254169, -253275, -252383, -251495, -250607, -249723, -248841, -247961,
       -247083, -246207, -245333, -244463, -243593, -242727, -241863, -240999,
       -240139, -239281, -238425, -237569, -236717, -235867, -235019, -234171,
       -233327, -232485, -231643, -230805, -229967, -229131, -228299, -227467,
       -226637, -225809, -224981, -224157, -223335, -222513, -221693, -220875,
       -220059, -219243, -218431, -217619, -216809, -216001, -215195, -214389,
       -213585, -212783, -211983, -211183, -210385, -209589, -208795, -208001,
       -207209, -206419, -205631, -204843, -204057, -203271, -202487, -201705,
       -200925, -200145, -199367, -198589, -197815, -197039, -196267, -195495,
       -194725, -193955, -193187, -192419, -191655, -190889, -190127, -189365,
       -188603, -187843, -187085, -186327, -185571, -184815, -184061, -183309,
       -182557, -181805, -181055, -180307, -179559, -178813, -178067, -177323,
       -176579, -175837, -175095, -174355, -173615, -172877, -172139, -171403,
       -170667, -169933, -169199, -168465, -167733, -167003, -166273, -165543,
       -164815, -164089, -163363, -162637, -161913, -161189, -160465, -159743,
       -159023, -158303, -157583, -156865, -156147, -155429, -154713, -153999,
       -153283, -152569, -151857, -151145, -150433, -149723, -149013, -148303,
       -147595, -146887, -146181, -145475, -144769, -144065, -143361, -142657,
       -141955, -141253, -140553, -139851, -139151, -138453, -137755, -137057,
       -136359, -135663, -134967, -134273, -133579, -132885, -132191, -131499,
       -130807, -130115, -129425, -128735, -128045, -127357, -126669, -125981,
       -125293, -124607, -123921, -123237, -122551, -121867, -121183, -120501,
       -119819, -119137, -118455, -117775, -117093, -116415, -115735, -115057,
       -114379, -113701, -113023, -112347, -111671, -110995, -110319, -109645,
       -108971, -108297, -107623, -106951, -106279, -105607, -104935, -104265,
       -103595, -102925, -102255, -101585, -100917, -100249, -99581, -98915,
       -98247, -97581, -96915, -96249, -95583, -94919, -94255, -93591,
       -92927, -92263, -91601, -90939, -90277, -89615, -88953, -88293,
       -87633, -86973, -86313, -85653, -84993, -84335, -83677, -83019,
       -82361, -81703, -81047, -80389, -79733, -79077, -78423, -77767,
       -77111, -76457, -75803, -75149, -74495, -73841, -73189, -72535,
       -71883, -71231, -70579, -69927, -69275, -68625, -67973, -67323,
       -66673, -66023, -65373, -64723, -64073, -63425, -62777, -62127,
       -61479, -60831, -60183, -59537, -58889, -58241, -57595, -56949,
       -56303, -55655, -55011, -54365, -53719, -53073, -52429, -51783,
       -51139, -50495, -49851, -49207, -48563, -47919, -47275, -46633,
       -45989, -45347, -44703, -44061, -43419, -42777, -42135, -41493,
       -40851, -40209, -39567, -38927, -38285, -37645, -37003, -36363,
       -35723, -35081, -34441, -33801, -33161, -32521, -31881, -31243,
       -30603, -29963, -29325, -28685, -28045, -27407, -26769, -26129,
       -25491, -24853, -24213, -23575, -22937, -22299, -21661, -21023,
       -20385, -19747, -19109, -18471, -17835, -17197, -16559, -15921,
       -15285, -14647, -14009, -13373, -12735, -12099, -11461, -10825,
       -10187, -9551, -8913, -8277, -7641, -7003, -6367, -5729,
       -5093, -4457, -3819, -3183, -2547, -1909, -1273, -637,
       0, 637, 1273, 1909, 2547, 3183, 3819, 4457,
       5093, 5729, 6367, 7003, 7641, 8277, 8913, 9551,
       10187, 10825, 11461, 12099, 12735, 13373, 14009, 14647,
       15285, 15921, 16559, 17197, 17835, 18471, 19109, 19747,
       20385, 21023, 21661, 22299, 22937, 23575, 24213, 24853,
       25491, 26129, 26769, 27407, 28045, 28685, 29325, 29963,
       30603, 31243, 31881, 32521, 33161, 33801, 34441, 35081,
       35723, 36363, 37003, 37645, 38285, 38927, 39567, 40209,
       40851, 41493, 42135, 42777, 43419, 44061, 44703, 45347,
       45989, 46633, 47275, 47919, 48563, 49207, 49851, 50495,
       51139, 51783, 52429, 53073, 53719, 54365, 55011, 55655,
       56303, 56949, 57595, 58241, 58889, 59537, 60183, 60831,
       61479, 62127, 62777, 63425, 64073, 64723, 65373, 66023,
       66673, 67323, 67973, 68625, 69275, 69927, 70579, 71231,
       71883, 72535, 73189, 73841, 74495, 75149, 75803, 76457,
       77111, 77767, 78423, 79077, 79733, 80389, 81047, 81703,
       82361, 83019, 83677, 84335, 84993, 85653, 86313, 86973,
       87633, 88293, 88953, 89615, 90277, 90939, 91601, 92263,
       92927, 93591, 94255, 94919, 95583, 96249, 96915, 97581,
       98247, 98915, 99581, 100249, 100917, 101585, 102255, 102925,
       103595, 104265, 104935, 105607, 106279, 106951, 107623, 108297,
       108971, 109645, 110319, 110995, 111671, 112347, 113023, 113701,
       114379, 115057, 115735, 116415, 117093, 117775, 118455, 119137,
       119819, 120501, 121183, 121867, 122551, 123237, 123921, 124607,
       125293, 125981, 126669, 127357, 128045, 128735, 129425, 130115,
       130807, 131499, 132191, 132885, 133579, 134273, 134967, 135663,
       136359, 137057, 137755, 138453, 139151, 139851, 140553, 141253,
       141955, 142657, 143361, 144065, 144769, 145475, 146181, 146887,
       147595, 148303, 149013, 149723, 150433, 151145, 151857, 152569,
       153283, 153999, 154713, 155429, 156147, 156865, 157583, 158303,
       159023, 159743, 160465, 161189, 161913, 162637, 163363, 164089,
       164815, 165543, 166273, 167003, 167733, 168465, 169199, 169933,
       170667, 171403, 172139, 172877, 173615, 174355, 175095, 175837,
       176579, 177323, 178067, 178813, 179559, 180307, 181055, 181805,
       182557, 183309, 184061, 184815, 185571, 186327, 187085, 187843,
       188603, 189365, 190127, 190889, 191655, 192419, 193187, 193955,
       194725, 195495, 196267, 197039, 197815, 198589, 199367, 200145,
       200925, 201705, 202487, 203271, 204057, 204843, 205631, 206419,
       207209, 208001, 208795, 209589, 210385, 211183, 211983, 212783,
       213585, 214389, 215195, 216001, 216809, 217619, 218431, 219243,
       220059, 220875, 221693, 222513, 223335, 224157, 224981, 225809,
       226637, 227467, 228299, 229131, 229967, 230805, 231643, 232485,
       233327, 234171, 235019, 235867, 236717, 237569, 238425, 239281,
       240139, 240999, 241863, 242727, 243593, 244463, 245333, 246207,
       247083, 247961, 248841, 249723, 250607, 251495, 252383, 253275,
       254169, 255067, 255965, 256867, 257771, 258677, 259587, 260497,
       261413, 262329, 263249, 264171, 265097, 266025, 266955, 267889,
       268825, 269765, 270707, 271653, 272601, 273553, 274507, 275465,
       276425, 277389, 278357, 279327, 280301, 281279, 282259, 283243,
       284231, 285223, 286219, 287217, 288219, 289225, 290235, 291249,
       292267, 293289, 294315, 295345, 296379, 297419, 298461, 299507,
       300559, 301615, 302677, 303741, 304811, 305885, 306965, 308049,
       309139, 310235, 311333, 312439, 313549, 314665, 315787, 316913,
       318047, 319185, 320329, 321481, 322637, 323801, 324969, 326147,
       327329, 328519, 329715, 330919, 332129, 333347, 334573, 335805,
       337047, 338295, 339553, 340819, 342093, 343375, 344667, 345967,
       347279, 348597, 349927, 351267, 352617, 353977, 355349, 356733,
       358127, 359533, 360951, 362381, 363825, 365281, 366751, 368235,
       369733, 371247, 372775, 374321, 375881, 377459, 379055, 380671,
       382303, 383957, 385629, 387325, 389041, 390781, 392545, 394335,
       396151, 397995, 399867, 401769, 403705, 405675, 407679, 409721,
       411805, 413931, 416103, 418323, 420595, 422925, 425315, 427771,
       430299, 432907, 435601, 438393, 441291, 444313, 447473, 450795,
       454305, 458039, 462051, 466411, 471229, 476697, 483181, 491625,
       512000
    >>

\* sums and differences of angles in turns
addTurns(a, b) == <<a[1] * b[2] + b[1] * a[2], a[2] * b[2]>>
subTurns(a, b) == <<a[1] * b[2] - b[1] * a[2], a[2] * b[2]>>

\* roundAngle(turns): the angle normalized between 0 and 1, for an angle that
\* is a ratio of small integers, in exact arithmetic; roundAngleDouble below
\* is the function on doubles that do not add exactly
roundAngle(turns) ==
    IF turns[1] >= turns[2] THEN <<turns[1] % turns[2], turns[2]>>
    ELSE IF turns[1] < 0
         THEN <<turns[1] + turns[2] * ((-turns[1] + turns[2] - 1) \div turns[2]),
                turns[2]>>
         ELSE turns

\* Math.floor(roundAngle(turns) * LUT_RES), the product taken in two steps of
\* 32 = sqrt(LUT_RES) so that no intermediate value leaves the integers
lutIndex(turns) ==
    LET rounded == roundAngle(turns)
        high    == (rounded[1] * 32) \div rounded[2]
        rest    == (rounded[1] * 32) % rounded[2]
    IN  high * 32 + (rest * 32) \div rounded[2]

\* getTrigFn(lut)(turns) = lut[Math.floor(roundAngle(turns) * LUT_RES)]
sin(turns) == SIN_LUT[lutIndex(turns) + 1]
cos(turns) == COS_LUT[lutIndex(turns) + 1]

\* getInverseTrigFn(lut)(ratio) for the ratio num / den:
\* index = Math.floor(ratio * HALF_LUT_RES + HALF_LUT_RES), the value
\* lut[index] / PI_2 in turns
asin(num, den) ==
    <<ASIN_LUT[(num * HALF_LUT_RES) \div den + HALF_LUT_RES + 1], TURN_SCALE>>

-----------------------------------------------------------------------------
(* SpecTrig: roundAngle and the lookup indexes in the arithmetic of the     *)
(* program's numbers, IEEE 754 doubles.  An argument is num / 2^exp with a  *)
(* small num, which every double format holds exactly; a result is          *)
(* int + num / 2^exp.  Products with a power of two, Math.abs, Math.ceil,   *)
(* Math.floor and % are exact on these values; a sum is rounded to          *)
(* DOUBLE_DIGITS significant bits, ties to the even neighbour.              *)

\* the significant bits of a double
DOUBLE_DIGITS == 53

\* the exponents of the arguments: whole numbers, eighths, and values within
\* a few units in the last place of zero as seen from 1
TrigExponents == {0, 3, 52, 53, 54, 55, 56}

TrigArguments == [num : -MaxTurns..MaxTurns, exp : TrigExponents]

\* a / u rounded to the nearest integer, ties to the even one
halfEven(a, u) ==
    LET q == a \div u
        rest == a % u
    IN  IF 2 * rest < u THEN q
        ELSE IF 2 * rest > u THEN q + 1
        ELSE IF q % 2 = 0 THEN q ELSE q + 1

\* turns >= 1
atLeastOne(turns) == turns.exp <= 30 /\ turns.num >= 2 ^ turns.exp

\* Math.ceil(Math.abs(turns)) for turns < 0
ceilAbs(turns) ==
    IF turns.exp > 30 THEN 1
    ELSE (-turns.num + 2 ^ turns.exp - 1) \div 2 ^ turns.exp

\* roundAngle(turns) as doubles compute it.  In turns + Math.ceil(Math.abs(
\* turns)) the sum 1 - a / 2^exp has exp significant bits and is rounded when
\* that is more than a double has.
roundAngleDouble(turns) ==
    IF atLeastOne(turns)
    THEN [int |-> 0, num |-> turns.num % (2 ^ turns.exp), exp |-> turns.exp]
    ELSE IF turns.num < 0
         THEN IF turns.exp <= DOUBLE_DIGITS
              THEN [int |-> ceilAbs(turns), num |-> turns.num, exp |-> turns.exp]
              ELSE [int |-> ceilAbs(turns),
                    num |-> -halfEven(-turns.num, 2 ^ (turns.exp - DOUBLE_DIGITS)),
                    exp |-> DOUBLE_DIGITS]
         ELSE [int |-> 0, num |-> turns.num, exp |-> turns.exp]

\* Math.floor(value * scale) for a power of two scale up to LUT_RES
floorTimes(value, scale) ==
    value.int * scale
      + (IF value.exp <= 20 THEN (value.num * scale) \div (2 ^ value.exp)
         ELSE IF value.num < 0 THEN -1 ELSE 0)

\* getTrigFn: Math.floor(roundAngle(turns) * LUT_RES)
trigIndex(turns) == floorTimes(roundAngleDouble(turns), LUT_RES)

\* getInverseTrigFn: Math.floor(ratio * HALF_LUT_RES + HALF_LUT_RES); a sum
\* just below HALF_LUT_RES is rounded to HALF_LUT_RES when it is at most half
\* a unit in the last place away
inverseIndex(ratio) ==
    IF ratio.exp <= 20
    THEN (ratio.num * HALF_LUT_RES + HALF_LUT_RES * 2 ^ ratio.exp)
            \div (2 ^ ratio.exp)
    ELSE IF ratio.num >= 0 THEN HALF_LUT_RES
    ELSE IF ratio.exp > DOUBLE_DIGITS
              /\ 2 * (-ratio.num) <= 2 ^ (ratio.exp - DOUBLE_DIGITS)
         THEN HALF_LUT_RES
         ELSE HALF_LUT_RES - 1

\* -1 <= ratio <= 1
isRatio(ratio) ==
    IF ratio.exp > 30 THEN TRUE
    ELSE -(2 ^ ratio.exp) <= ratio.num /\ ratio.num <= 2 ^ ratio.exp

\* 0 <= value < 1
inUnitInterval(value) == floorTimes(value, 1) = 0

\* value - turns is a whole number
differByInteger(value, turns) ==
    LET scaled == value.num * 2 ^ (turns.exp - value.exp)
    IN  IF turns.exp <= 30 THEN (scaled - turns.num) % (2 ^ turns.exp) = 0
        ELSE scaled = turns.num

\* The module is loaded and no trig function has been called.
InitTrig ==
    /\ NoPipe /\ NoRoll
    /\ trig = [fn |-> "none", arg |-> [num |-> 0, exp |-> 0],
               rounded |-> [int |-> 0, num |-> 0, exp |-> 0], index |-> 0]
    /\ settings = None
    /\ vitals = None /\ pvitals = None /\ lastDrain = None
    /\ alphaNumSeed = None /\ prngs = None /\ outs = None /\ lastInt = None
    /\ genomeIn = None /\ genesOut = None /\ commandsOut = None
    /\ parentBody = None /\ childBody = None
    /\ NoHex /\ NoSpike /\ NoSim
    /\ phase = "loaded"

TrigFrame ==
    UNCHANGED <<settings, vitalsVars, prngVars, genomeVars, bodyVars, hexVars,
                spikeVars, simVars, pipeVars, rollVars>>

\* sin(turns) or cos(turns): the index into the table of LUT_RES entries
CallTrigFn(turns) ==
    /\ trig' = [fn |-> "getTrigFn", arg |-> turns,
                rounded |-> roundAngleDouble(turns), index |-> trigIndex(turns)]
    /\ phase' = "called"
    /\ TrigFrame

\* asin(ratio) or acos(ratio): the index into the table of LUT_RES + 1
\* entries
CallInverseTrigFn(ratio) ==
    /\ isRatio(ratio)
    /\ trig' = [fn |-> "getInverseTrigFn", arg |-> ratio,
                rounded |-> [int |-> 0, num |-> 0, exp |-> 0],
                index |-> inverseIndex(ratio)]
    /\ phase' = "called"
    /\ TrigFrame

SineOrCosine == \E turns \in TrigArguments : CallTrigFn(turns)

ArcsineOrArccosine == \E ratio \in TrigArguments : CallInverseTrigFn(ratio)

NextTrig == SineOrCosine \/ ArcsineOrArccosine

SpecTrig == InitTrig /\ [][NextTrig]_vars

\* C29: roundAngle returns a value in [0, 1) that differs from turns by a
\* whole number, so that the index of sin and cos is in 0..LUT_RES-1; and the
\* index of asin and acos is in 0..LUT_RES for a ratio in [-1, 1].
C29_IndexesInsideTables ==
    /\ trig.fn = "getTrigFn" =>
          /\ inUnitInterval(trig.rounded)
          /\ differByInteger(trig.rounded, trig.arg)
          /\ trig.index \in 0..(LUT_RES - 1)
    /\ trig.fn = "getInverseTrigFn" => trig.index \in 0..LUT_RES

\* sin or cos has been called with -1 / 2^56, which roundAngle turns into 1,
\* and reads the table at LUT_RES, past its last entry.
C29_IndexPastSineTable ==
    /\ trig.fn = "getTrigFn"
    /\ trig.arg = [num |-> -1, exp |-> 56]
    /\ trig.rounded = [int |-> 1, num |-> 0, exp |-> DOUBLE_DIGITS]
    /\ trig.index = LUT_RES

\* The indexes of asin and acos stay inside their tables, at both ends and
\* where the sum is rounded.
C29_InverseIndexInsideTable ==
    trig.fn = "getInverseTrigFn" => trig.index \in 0..LUT_RES

\* The index of sin and cos is outside the table only for a negative angle
\* too small to be told from 0 when it is added to 1.
C29_OnlyTinyNegativesLeaveTable ==
    trig.fn = "getTrigFn" /\ ~(trig.index \in 0..(LUT_RES - 1)) =>
       /\ trig.arg.num < 0
       /\ trig.arg.exp > DOUBLE_DIGITS
       /\ trig.index = LUT_RES

-----------------------------------------------------------------------------
(* Spikes.  Two revisions of app/meebas/spikes.js are among the sources:
   app/meebas/spikes.js itself, whose spikes drain a constant and whose
   mover returns a moved copy of the spike, and the revision kept in
   tests/app/simulation.test.js, lines 164-269, whose drain falls with the
   spike's length and whose mover writes into the spike it is handed.
   fixed.spikesModule names the revision that bodies.js imports. *)

COPYING == "copying"
MUTATING == "mutating"

SPIKE_WIDTH == 6
HALF_WIDTH == SPIKE_WIDTH \div 2
SPIKE_DRAIN == 320

\* BASE_DRAIN = 25000 * Math.max(0, settings.simulation.temperature) / 30
BASE_DRAIN(fixed) == <<25000 * Max(0, fixed.temperature), 30>>

\* DRAIN_LENGTH_QUOTIENT = 1.2, as the ratio 6 / 5
DRAIN_LENGTH_QUOTIENT == <<6, 5>>

\* base ** exponent for a whole base and a ratio exponent: the root-th root of
\* the radicand, which is 0 exactly when the power is
power(base, exponent) ==
    [radicand |-> Pow(base, exponent[1]), root |-> exponent[2]]

\* getXOffset(angle, distance) = Math.floor(cos(angle) * distance)
getXOffset(angle, distance) == (cos(angle) * distance) \div TRIG_SCALE

\* getYOffset(angle, distance) = Math.floor(-sin(angle) * distance)
getYOffset(angle, distance) == ((-sin(angle)) * distance) \div TRIG_SCALE

\* the drain of a new spike: a dividend (a ratio) over a divisor (a power).
\* A zero divisor makes the double Infinity, or NaN when the dividend is 0.
spikeDrain(fixed, length) ==
    IF fixed.spikesModule = COPYING
    THEN [dividend |-> <<SPIKE_DRAIN, 1>>, divisor |-> power(1, <<1, 1>>)]
    ELSE [dividend |-> BASE_DRAIN(fixed),
          divisor  |-> power(length, DRAIN_LENGTH_QUOTIENT)]

\* spawnSpike(radius, angle, length)
spawnSpike(fixed, radius, angle, length) ==
    LET offsetAngle == asin(HALF_WIDTH, radius)
    IN  [fill   |-> "black",
         length |-> length,
         drain  |-> spikeDrain(fixed, length),
         x1 |-> 0, y1 |-> 0, x2 |-> 0, y2 |-> 0, x3 |-> 0, y3 |-> 0,
         offset |-> [x1 |-> getXOffset(angle, length + radius),
                     y1 |-> getYOffset(angle, length + radius),
                     x2 |-> getXOffset(subTurns(angle, offsetAngle), radius - 1),
                     y2 |-> getYOffset(subTurns(angle, offsetAngle), radius - 1),
                     x3 |-> getXOffset(addTurns(angle, offsetAngle), radius - 1),
                     y3 |-> getYOffset(addTurns(angle, offsetAngle), radius - 1)],
         meta   |-> [deactivateTime |-> None]]

\* the spike at the position (x, y) of its body
movedTo(x, y, target) ==
    [target EXCEPT !.x1 = x + target.offset.x1, !.y1 = y + target.offset.y1,
                   !.x2 = x + target.offset.x2, !.y2 = y + target.offset.y2,
                   !.x3 = x + target.offset.x3, !.y3 = y + target.offset.y3]

\* A plausible slip of getSpikeMover: the points are moved from where they
\* are, not from the offsets.
getSpikeMoverFromCurrent(fixed, x, y, target) ==
    LET shifted == [target EXCEPT !.x1 = x + target.x1, !.y1 = y + target.y1,
                                  !.x2 = x + target.x2, !.y2 = y + target.y2,
                                  !.x3 = x + target.x3, !.y3 = y + target.y3]
    IN  IF fixed.spikesModule = COPYING
        THEN [spike |-> target, returned |-> shifted]
        ELSE [spike |-> shifted, returned |-> None]

\* getSpikeMover(x, y)(spike): the spike that was handed in as the call leaves
\* it, and the value the call returns (None for undefined)
getSpikeMover(fixed, x, y, target) ==
    IF fixed.spikesModule = COPYING
    THEN [spike |-> target, returned |-> movedTo(x, y, target)]
    ELSE [spike |-> movedTo(x, y, target), returned |-> None]

-----------------------------------------------------------------------------
(* The body factory: unnamed/part_002, lines 1-208 (app/meebas/bodies.js) *)

\* Math.PI as a ratio; for every radius and mass of the model,
\* ceil(PI * r^2) and floor(sqrt(mass / PI)) are those of the double
PI == <<355, 113>>

\* Math.ceil(n * r) for an integer n >= 0 and a ratio r
CeilMul(n, r) == (n * r[1] + r[2] - 1) \div r[2]

sqr(n) == n * n

\* A plausible slip of minMass: the area is rounded down.
minMassFloor(fixed) == FloorMul(sqr(fixed.minRadius), PI)

\* dynamic.minMass = Math.ceil(Math.PI * sqr(fixed.minRadius))
minMass(fixed) == CeilMul(sqr(fixed.minRadius), PI)

\* Math.floor(Math.sqrt(mass / Math.PI)): the largest r with PI * r^2 <= mass
RECURSIVE radiusFrom(_, _)
radiusFrom(mass, r) ==
    IF PI[1] * sqr(r + 1) <= PI[2] * mass THEN radiusFrom(mass, r + 1) ELSE r
radiusOf(mass) == radiusFrom(mass, 0)

\* A plausible slip of toHex: a byte below 16 is written as one digit.
RECURSIVE toHexUnpadded(_)
toHexUnpadded(bytes) ==
    IF bytes = <<>> THEN <<>>
    ELSE (IF Head(bytes) < 16 THEN <<Head(bytes)>>
                              ELSE <<Head(bytes) \div 16, Head(bytes) % 16>>)
         \o toHexUnpadded(Tail(bytes))

\* toHex / toBytes of utils/arrays.js: two hex digits per byte, high digit first
RECURSIVE toHex(_)
toHex(bytes) ==
    IF bytes = <<>> THEN <<>>
    ELSE <<Head(bytes) \div 16, Head(bytes) % 16>> \o toHex(Tail(bytes))

RECURSIVE toBytes(_)
toBytes(hex) ==
    IF Len(hex) < 2 THEN <<>>
    ELSE <<16 * hex[1] + hex[2]>> \o toBytes(SubSeq(hex, 3, Len(hex)))

\* A plausible slip of initBody: the spikes are left in the order of the genes.
sortByLengthMissing(spikes) == spikes

\* arr.sort((a, b) => b.length - a.length): stable, longest first
RECURSIVE sortByLength(_)
sortByLength(spikes) ==
    IF spikes = <<>> THEN <<>>
    ELSE LET rest   == sortByLength(SubSeq(spikes, 1, Len(spikes) - 1))
             last   == spikes[Len(spikes)]
             before == SelectSeq(rest, LAMBDA sp : sp.length >= last.length)
             after  == SelectSeq(rest, LAMBDA sp : sp.length < last.length)
         IN  before \o <<last>> \o after

initBody(fixed, dna) ==
    LET dnaCommands == readGenome(fixed, dna)
        mass        == minMass(fixed) + dnaCommands.size
        radius      == radiusOf(mass)
        spikes      == sortByLength(
                          [i \in 1..Len(dnaCommands.spikes) |->
                              spawnSpike(fixed, radius, dnaCommands.spikes[i].angle,
                                         dnaCommands.spikes[i].length)])
    IN  [dna      |-> toHex(dna),
         fill     |-> "black",
         x        |-> 0,
         y        |-> 0,
         mass     |-> mass,
         radius   |-> radius,
         velocity |-> [angle |-> <<0, 1>>, speed |-> 0],
         vitals   |-> initVitalsInPlace(fixed, mass,
                          [i \in 1..Len(spikes) |-> spikes[i].length]),
         spikes   |-> spikes,
         meta     |-> [nextX |-> 0, nextY |-> 0, lastCollisionBody |-> None]]

\* toVector({angle, speed}) of utils/physics.js for an angle of a whole
\* number of quarter turns: x = cos * speed, y = -sin * speed
toVector(angle, speed) ==
    LET quarter == (4 * angle[1]) \div angle[2]
    IN  CASE quarter = 0 -> [x |-> speed, y |-> 0]
          [] quarter = 1 -> [x |-> 0, y |-> -speed]
          [] quarter = 2 -> [x |-> -speed, y |-> 0]
          [] OTHER       -> [x |-> 0, y |-> speed]

\* body.spikes.forEach(getSpikeMover(x, y)): the spikes of the body after the
\* mover has been called on each; what the mover returns is dropped
forEachSpike(fixed, x, y, spikes) ==
    [i \in 1..Len(spikes) |-> getSpikeMover(fixed, x, y, spikes[i]).spike]

\* A plausible slip of replicateParent: it also takes the child's share from
\* the parent, which is the caller's work.
replicateParentHalvesParent(fixed, parent, angle, dna, bonus) ==
    LET body0 == initBody(fixed, dna)
        halfCalories == parent.vitals.calories \div 2
        relativeLocation == toVector(angle, 2 * body0.radius)
    IN  [parent |-> [parent EXCEPT !.vitals.calories = @ - halfCalories],
         body   |-> [body0 EXCEPT !.fill = parent.fill,
                                  !.x = parent.x + relativeLocation.x,
                                  !.y = parent.y + relativeLocation.y,
                                  !.velocity = [angle |-> angle,
                                                speed |-> parent.velocity.speed + bonus],
                                  !.spikes = forEachSpike(fixed,
                                                 parent.x + relativeLocation.x,
                                                 parent.y + relativeLocation.y, @)]]

\* replicateParent(parent, angle), with dna the outcome of
\* replicateGenome(toBytes(parent.dna)) and bonus the outcome of
\* randInt(0, dynamic.maxSpawningEnergy / body.mass): the parent and the new
\* body when it returns.  setCalories(body.vitals, ...) returns a new Vitals
\* that the statement drops; body.vitals stays the object initVitals built.
replicateParent(fixed, parent, angle, dna, bonus) ==
    LET body0 == initBody(fixed, dna)
        droppedVitals == setCalories(body0.vitals, parent.vitals.calories \div 2)
        relativeLocation == toVector(angle, 2 * body0.radius)
    IN  [parent |-> parent,
         body   |-> [body0 EXCEPT !.fill = parent.fill,
                                  !.x = parent.x + relativeLocation.x,
                                  !.y = parent.y + relativeLocation.y,
                                  !.velocity = [angle |-> angle,
                                                speed |-> parent.velocity.speed + bonus],
                                  !.spikes = forEachSpike(fixed,
                                                 parent.x + relativeLocation.x,
                                                 parent.y + relativeLocation.y, @)]]

-----------------------------------------------------------------------------
(* SpecBody: a living parent is handed to replicateParent *)

BodySettings ==
    { [percentDiesAt |-> <<1, 2>>, percentSpawnsAt |-> <<2, 1>>,
       upkeepPerMass |-> <<1, 4>>, upkeepPerSpike |-> 2, spikeCountExponent |-> 1,
       massCalorieExponent |-> 0, baseUpkeepAdjustment |-> <<1, 2>>,
       temperature |-> 30, bitsPerMass |-> m, bitsPerSpikeLength |-> 2,
       minRadius |-> r, maxSpawningEnergy |-> 30, spikesModule |-> module] :
         m \in {1, 2}, r \in {3, 4}, module \in {COPYING, MUTATING} }

\* the bytes the parents' genomes are drawn from
ParentBytes == {7, 240, 241}

\* the launch angles drawn, in turns
LaunchAngles == {<<0, 4>>, <<1, 4>>}

\* The parent: a body built by initBody, placed and coloured as getRandomBody
\* does, with the calories at which the simulation has it spawn.
InitBody ==
    /\ NoLate
    /\ settings \in BodySettings
    /\ \E dna \in SeqsUpTo(ParentBytes, MaxParentLen), extra \in 0..MaxParentCalories :
          LET body == initBody(settings, dna)
              calories == body.vitals.spawnsAt + extra
          IN  parentBody = [body EXCEPT !.fill = "#00ff00", !.x = 10, !.y = 20,
                                        !.velocity = [angle |-> <<1, 4>>, speed |-> 3],
                                        !.vitals.calories = calories,
                                        !.vitals.isDead = calories < body.vitals.diesAt]
    /\ childBody = None
    /\ vitals = None /\ pvitals = None /\ lastDrain = None
    /\ alphaNumSeed = None /\ prngs = None /\ outs = None /\ lastInt = None
    /\ genomeIn = None /\ genesOut = None /\ commandsOut = None
    /\ phase = "alive"
    /\ NoHex /\ NoSpike /\ NoSim

ReplicateParent(angle) ==
    /\ phase = "alive"
    /\ \E dna \in replicateGenome(toBytes(parentBody.dna)) :
        \E bonus \in 0..(settings.maxSpawningEnergy \div initBody(settings, dna).mass) :
          LET r == replicateParent(settings, parentBody, angle, dna, bonus)
          IN  /\ parentBody' = r.parent
              /\ childBody' = r.body
    /\ phase' = "replicated"
    /\ UNCHANGED <<moreVars, settings, vitalsVars, prngVars, genomeVars>>

NextBody == \E angle \in LaunchAngles : ReplicateParent(angle)

SpecBody == InitBody /\ [][NextBody]_vars

\* C3: the child replicateParent returns has calories floor(parent calories / 2)
\* and an isDead that agrees with them.
C3_ChildGetsHalfCalories ==
    phase = "replicated" =>
        /\ childBody.vitals.calories = parentBody.vitals.calories \div 2
        /\ childBody.vitals.isDead = (childBody.vitals.calories < childBody.vitals.diesAt)

\* The child still has the calories initVitals gave it, not half the parent's.
C3_ChildKeepsStartingCalories ==
    /\ phase = "replicated"
    /\ childBody.vitals.calories # parentBody.vitals.calories \div 2
    /\ childBody.vitals.calories = initBody(settings, toBytes(childBody.dna)).vitals.calories

\* the bodies the factory has built so far
builtBodies == {parentBody} \cup (IF phase = "replicated" THEN {childBody} ELSE {})

\* C17: every body built from a genome has mass = minMass + genome size, with
\* minMass = ceil(pi * minRadius^2) > 0, and radius = floor(sqrt(mass / pi)),
\* which is at least minRadius > 0.
C17_MassAndRadiusAtLeastMinimum ==
    \A body \in builtBodies :
        LET area  == PI[1] * sqr(settings.minRadius)
            least == CHOOSE m \in 1..area : /\ PI[2] * m >= area
                                            /\ PI[2] * (m - 1) < area
            size  == readGenome(settings, toBytes(body.dna)).size
        IN  /\ least > 0
            /\ body.mass = least + size
            /\ body.mass >= least
            /\ PI[1] * sqr(body.radius) <= PI[2] * body.mass
            /\ PI[1] * sqr(body.radius + 1) > PI[2] * body.mass
            /\ body.radius >= settings.minRadius
            /\ settings.minRadius > 0

\* A child has been built from a genome the parent did not have, and its size
\* genes add to its mass.
C17_SizedChildBuilt ==
    /\ phase = "replicated"
    /\ childBody.mass > minMass(settings)
    /\ childBody.radius = settings.minRadius
    /\ childBody.dna # parentBody.dna

\* the spike's absolute points are its offsets from (x, y)
seatedAt(x, y, target) ==
    /\ target.x1 = x + target.offset.x1 /\ target.y1 = y + target.offset.y1
    /\ target.x2 = x + target.offset.x2 /\ target.y2 = y + target.offset.y2
    /\ target.x3 = x + target.offset.x3 /\ target.y3 = y + target.offset.y3

\* C19: after replicateParent returns, every spike of the child has its
\* absolute points at the child's position plus the spike's offsets.
C19_ChildSpikesSeated ==
    phase = "replicated" =>
        \A i \in 1..Len(childBody.spikes) :
            seatedAt(childBody.x, childBody.y, childBody.spikes[i])

\* A child has a spike whose six absolute coordinates are still the zeros
\* spawnSpike gave them, away from the child's position plus the offsets.
C19_ChildSpikeLeftAtZero ==
    /\ phase = "replicated"
    /\ \E i \in 1..Len(childBody.spikes) :
          LET target == childBody.spikes[i]
          IN  /\ <<target.x1, target.y1, target.x2, target.y2, target.x3, target.y3>>
                    = <<0, 0, 0, 0, 0, 0>>
              /\ ~seatedAt(childBody.x, childBody.y, target)

\* C4: replicateParent leaves the parent as it was: vitals, dna, position,
\* velocity and spikes.
C4_ParentUnchanged == [][parentBody' = parentBody]_vars

\* A parent with calories and a spike has been replicated into a child with
\* another genome.
C4_ParentWithSpikeReplicated ==
    /\ phase = "replicated"
    /\ parentBody.vitals.calories > 1
    /\ parentBody.spikes # <<>>
    /\ childBody.dna # parentBody.dna

-----------------------------------------------------------------------------
(* SpecMote: a mote is spawned and then drained any number of times *)

\* Number.MAX_SAFE_INTEGER = 2^53 - 1; the largest integer of the model
\* stands for it
MAX_SAFE_INTEGER == 2147483647

\* dynamic.moteMass = Math.ceil(Math.PI * sqr(fixed.moteRadius))
moteMass(fixed) == CeilMul(sqr(fixed.moteRadius), PI)

\* dynamic.moteStartingCalories = Math.ceil(moteMass * moteCalorieAdjustment)
moteStartingCalories(fixed) ==
    (moteMass(fixed) * fixed.moteCalorieAdjustment[1]
       + fixed.moteCalorieAdjustment[2] - 1) \div fixed.moteCalorieAdjustment[2]

\* spawnMote(): the vitals of the new mote
moteVitals(fixed) ==
    [calories |-> moteStartingCalories(fixed),
     upkeep   |-> 0,
     isDead   |-> FALSE,
     spawnsAt |-> MAX_SAFE_INTEGER,
     diesAt   |-> 0]

\* settings.bodies: the radius of a mote and its calories per mass
MoteSettings ==
    { [moteRadius |-> r, moteCalorieAdjustment |-> a] :
         r \in {1, 2}, a \in {<<1, 4>>, <<1, 2>>, <<1, 1>>} }

\* spawnMote has returned; the mote is held once by a caller of each variant
\* of the vitals module
InitMote ==
    /\ NoLate
    /\ settings \in MoteSettings
    /\ vitals = moteVitals(settings)
    /\ pvitals = moteVitals(settings)
    /\ lastDrain = None
    /\ alphaNumSeed = None /\ prngs = None /\ outs = None /\ lastInt = None
    /\ genomeIn = None /\ genesOut = None /\ commandsOut = None
    /\ parentBody = None /\ childBody = None
    /\ NoHex /\ NoSpike /\ NoSim
    /\ phase = "mote"

NextMote ==
    \/ \E amount \in 0..MaxDrain : DrainInPlace(amount)
    \/ \E amount \in 0..MaxDrain : DrainCopy(amount)

SpecMote == InitMote /\ [][NextMote]_vars

\* C26: a mote never satisfies the death rule: after any sequence of drains
\* of non-negative amounts its calories are at least 0 = diesAt, isDead stays
\* false, and its calories stay below spawnsAt.
C26_MoteNeverDies ==
    \A mote \in {vitals, pvitals} :
        /\ mote.diesAt = 0
        /\ mote.calories >= mote.diesAt
        /\ ~mote.isDead
        /\ mote.calories < mote.spawnsAt

\* Both motes have been drained to 0 calories, the last drain asking for more
\* than was left.
C26_MoteDrainedToZero ==
    /\ vitals.calories = 0 /\ pvitals.calories = 0
    /\ lastDrain # None
    /\ lastDrain.before > 0
    /\ lastDrain.amount > lastDrain.before

-----------------------------------------------------------------------------
(* SpecHex: a body is built from a genome and its dna is decoded again *)

\* the bytes the genomes are drawn from: 00, 07, 10, ab, f1 and ff in hex
HexBytes == {0, 7, 16, 171, 241, 255}

InitHex ==
    /\ NoLate
    /\ settings \in BodySettings
    /\ genomeIn \in SeqsUpTo(HexBytes, MaxGenomeLen)
    /\ genesOut = None /\ commandsOut = None
    /\ parentBody = None /\ childBody = None
    /\ dnaBytes = None
    /\ vitals = None /\ pvitals = None /\ lastDrain = None
    /\ alphaNumSeed = None /\ prngs = None /\ outs = None /\ lastInt = None
    /\ NoSpike /\ NoSim
    /\ phase = "genome"

\* initBody(dna): the body keeps toHex(dna)
BuildBody ==
    /\ phase = "genome"
    /\ parentBody' = initBody(settings, genomeIn)
    /\ phase' = "built"
    /\ UNCHANGED <<lateVars, settings, vitalsVars, prngVars, genomeVars, childBody,
                   hexVars, spikeVars, simVars>>

\* replicateParent: toBytes(parent.dna), the argument of replicateGenome
DecodeDna ==
    /\ phase = "built"
    /\ dnaBytes' = toBytes(parentBody.dna)
    /\ phase' = "decoded"
    /\ UNCHANGED <<lateVars, settings, vitalsVars, prngVars, genomeVars, bodyVars,
                   spikeVars, simVars>>

NextHex == BuildBody \/ DecodeDna

SpecHex == InitHex /\ [][NextHex]_vars

\* C12: the hex encoding round-trips: the bytes replicateParent decodes from
\* the dna of a body are the bytes initBody built the body from, for a
\* genome of any length, and the dna holds two digits per byte.
C12_HexRoundTrip ==
    /\ phase # "genome" => Len(parentBody.dna) = 2 * Len(genomeIn)
    /\ phase = "decoded" => dnaBytes = genomeIn

\* A decoded genome that holds a byte below 16 before a byte above 15.
C12_SmallByteDecoded ==
    /\ phase = "decoded"
    /\ \E i \in 1..Len(genomeIn) : \E j \in 1..Len(genomeIn) :
          i < j /\ genomeIn[i] \in 1..15 /\ genomeIn[j] > 15

\* The empty genome decoded from the empty dna.
C12_EmptyDecoded == phase = "decoded" /\ genomeIn = <<>> /\ dnaBytes = <<>>

\* the values initBody(dna) divides by: the genome's length in every gene's
\* location, bitsPerMass in the size, bitsPerSpikeLength in every spike's
\* length, Math.PI in the radius, and for every spike the radius in
\* asin(HALF_WIDTH / radius), PI_2 inside asin and, where the drain falls with
\* the length, length ** DRAIN_LENGTH_QUOTIENT; in the upkeep 30 and
\* mass ** massCalorieExponent
initBodyDivisors(fixed, dna) ==
    LET genes == toGenes(dna)
        body  == initBody(fixed, dna)
    IN  {Len(dna) : i \in 1..Len(genes)}
          \cup {fixed.bitsPerMass, PI[1], 30,
                Pow(body.mass, fixed.massCalorieExponent)}
          \cup UNION { {fixed.bitsPerSpikeLength, body.radius, PI[1]}
                          \cup (IF fixed.spikesModule = MUTATING
                                THEN {body.spikes[i].drain.divisor.radicand}
                                ELSE {}) : i \in 1..Len(body.spikes) }

\* C18: no division by zero is reachable when a body is built from a genome:
\* every divisor is non-zero, also for a spike gene with fewer set bits than
\* bitsPerSpikeLength.
C18_NoDivisionByZero ==
    phase \in {"built", "decoded"} => 0 \notin initBodyDivisors(settings, genomeIn)

\* A body has been built with a spike of length 0 whose drain is the base drain
\* divided by 0 ** DRAIN_LENGTH_QUOTIENT = 0.
C18_ZeroLengthSpikeDrained ==
    /\ phase = "built"
    /\ \E i \in 1..Len(parentBody.spikes) :
          /\ parentBody.spikes[i].length = 0
          /\ parentBody.spikes[i].drain.dividend[1] > 0
          /\ parentBody.spikes[i].drain.divisor.radicand = 0

\* C24: every body initBody builds has its spikes longest first, one spike
\* for each spike command of the genome, whatever the order of the genes.
C24_SpikesLongestFirst ==
    phase \in {"built", "decoded"} =>
        LET commands == readGenome(settings, genomeIn).spikes
            spikes   == parentBody.spikes
        IN  /\ Len(spikes) = Len(commands)
            /\ \A i \in 1..(Len(spikes) - 1) : spikes[i].length >= spikes[i + 1].length
            /\ \A n \in 0..(8 * MaxGenomeLen) :
                  Cardinality({i \in 1..Len(spikes) : spikes[i].length = n})
                    = Cardinality({i \in 1..Len(commands) : commands[i].length = n})

\* A body has been built from a genome whose first spike gene is the shorter
\* one, and its first spike is the longer one.
C24_LaterGeneLonger ==
    /\ phase = "built"
    /\ LET commands == readGenome(settings, genomeIn).spikes
       IN  /\ Len(commands) = 2
           /\ commands[1].length < commands[2].length
           /\ parentBody.spikes[1].length = commands[2].length
           /\ parentBody.spikes[2].length = commands[1].length

-----------------------------------------------------------------------------
(* SpecSpike: a spike is spawned and then moved with its body *)

\* the settings of SpecSpike: one of each revision of the spikes module
SpikeSettings ==
    {fixed \in BodySettings : fixed.bitsPerMass = 1 /\ fixed.minRadius = 3}

\* the radii, angles (gene locations, in turns) and lengths spikes are
\* spawned with
SpikeRadii == {3, 4}
SpikeAngles == {<<0, 1>>, <<1, 2>>, <<1, 3>>, <<2, 3>>, <<3, 4>>}
SpikeLengths == {0, 1, 2}

\* the positions the body of the spike moves to
SpikePositions == {<<0, 0>>, <<10, 20>>, <<16, 20>>}

InitSpike ==
    /\ NoLate
    /\ settings \in SpikeSettings
    /\ spike = None
    /\ genomeIn = None /\ genesOut = None /\ commandsOut = None
    /\ parentBody = None /\ childBody = None
    /\ vitals = None /\ pvitals = None /\ lastDrain = None
    /\ alphaNumSeed = None /\ prngs = None /\ outs = None /\ lastInt = None
    /\ NoHex /\ NoSim
    /\ phase = "unspawned"

\* spawnSpike(radius, angle, length); path is the list of positions the spike
\* has been moved to since
SpawnSpike(radius, angle, length) ==
    /\ phase = "unspawned"
    /\ LET created == spawnSpike(settings, radius, angle, length)
       IN  spike' = [created |-> created, current |-> created, path |-> <<>>]
    /\ phase' = "spawned"
    /\ UNCHANGED <<lateVars, settings, vitalsVars, prngVars, genomeVars, bodyVars,
                   hexVars, simVars>>

\* getSpikeMover(x, y)(spike): the caller goes on with the spike the mover
\* returns, or with the one it handed in when the mover returns nothing
MoveSpike(x, y) ==
    /\ phase \in {"spawned", "moved"}
    /\ Len(spike.path) < MaxMoves
    /\ LET call == getSpikeMover(settings, x, y, spike.current)
       IN  spike' = [spike EXCEPT
                        !.current = IF settings.spikesModule = COPYING
                                    THEN call.returned ELSE call.spike,
                        !.path = Append(@, <<x, y>>)]
    /\ phase' = "moved"
    /\ UNCHANGED <<lateVars, settings, vitalsVars, prngVars, genomeVars, bodyVars,
                   hexVars, simVars>>

NextSpike ==
    \/ \E radius \in SpikeRadii, angle \in SpikeAngles, length \in SpikeLengths :
          SpawnSpike(radius, angle, length)
    \/ \E position \in SpikePositions : MoveSpike(position[1], position[2])

SpecSpike == InitSpike /\ [][NextSpike]_vars

\* C20: moving a spike changes only its six absolute coordinates, each to the
\* last position plus the offset; offsets, length, drain and deactivateTime
\* stay as at creation after any sequence of moves.
C20_MoveSetsOnlyAbsolutePoints ==
    /\ phase = "spawned" => spike.current = spike.created
    /\ phase = "moved" =>
          LET last == spike.path[Len(spike.path)]
              now  == spike.current
              was  == spike.created
          IN  /\ now.x1 = last[1] + was.offset.x1 /\ now.y1 = last[2] + was.offset.y1
              /\ now.x2 = last[1] + was.offset.x2 /\ now.y2 = last[2] + was.offset.y2
              /\ now.x3 = last[1] + was.offset.x3 /\ now.y3 = last[2] + was.offset.y3
              /\ now.offset = was.offset
              /\ now.length = was.length
              /\ now.drain = was.drain
              /\ now.meta = was.meta
              /\ now.fill = was.fill
              /\ DOMAIN now = DOMAIN was

\* A spike with a tip away from its body has been moved to one position and
\* then to another.
C20_MovedTwice ==
    /\ phase = "moved"
    /\ Len(spike.path) = 2
    /\ spike.path[1] # spike.path[2]
    /\ spike.path[1] # <<0, 0>>
    /\ spike.created.offset.x1 # 0
    /\ spike.created.offset.y1 # 0

-----------------------------------------------------------------------------
(* The physics engine (app/simulation.js).  Its source is not among the    *)
(* files; tests/app/simulation.test.js and unnamed/part_001, lines 1-132,  *)
(* are its tests.  The engine is modelled from section 4.5 of the          *)
(* specification for bodies that lie on one horizontal line and move along *)
(* it: the line between two centres is then the x axis, the normal          *)
(* component of a velocity is its x component and the tangential one is 0. *)
(* Such bodies carry no spikes and the mote spawn rate is 0, as in the     *)
(* tests, so the drain and lifecycle stages change nothing.                *)

\* the passes separateBodies makes before it gives up
MAX_SEPARATION_PASSES == 3

\* isShorter({x1, y1, x2, y2}, distance): no square root
isShorter(x1, y1, x2, y2, distance) ==
    sqr(x1 - x2) + sqr(y1 - y2) < sqr(distance)

\* two bodies overlap when their centres are closer than the sum of radii
overlaps(body, other) ==
    isShorter(body.x, body.y, other.x, other.y, body.radius + other.radius)

\* two bodies touch when their centres are no further than the sum of radii
touches(body, other) ==
    sqr(body.x - other.x) + sqr(body.y - other.y) <= sqr(body.radius + other.radius)

\* the pairs <<i, j>>, i < j, of a list of n bodies, in loop order
pairsOf(n) ==
    LET all == [k \in 1..(n * n) |-> <<((k - 1) \div n) + 1, ((k - 1) % n) + 1>>]
    IN  SelectSeq(all, LAMBDA pr : pr[1] < pr[2])

\* Push the overlapping bodies i and j apart along the line between their
\* centres until they touch: the correction is split in two halves, the odd
\* unit going to the second body.  Coincident centres give no direction and
\* no correction.
pushApart(bs, i, j) ==
    LET overlap == bs[i].radius + bs[j].radius - (IF bs[i].x < bs[j].x
                                                  THEN bs[j].x - bs[i].x
                                                  ELSE bs[i].x - bs[j].x)
        first   == overlap \div 2
        second  == overlap - first
    IN  CASE bs[i].x < bs[j].x ->
                 [bs EXCEPT ![i].x = @ - first, ![j].x = @ + second]
          [] bs[i].x > bs[j].x ->
                 [bs EXCEPT ![i].x = @ + first, ![j].x = @ - second]
          [] OTHER -> bs

\* one pass of separateBodies over every pair of bodies; the list so far is
\* bound once (b) before the next pair is handled
RECURSIVE separatePairs(_, _)
separatePairs(bs, pairs) ==
    IF pairs = <<>> THEN bs
    ELSE LET i == Head(pairs)[1]
             j == Head(pairs)[2]
         IN  CHOOSE out \in
                 { separatePairs(IF overlaps(b[i], b[j]) THEN pushApart(b, i, j) ELSE b,
                                 Tail(pairs)) : b \in {bs} } : TRUE

separatePass(bs) == separatePairs(bs, pairsOf(Len(bs)))

overlapsFound(bs) ==
    \E i \in 1..Len(bs) : \E j \in 1..Len(bs) : i < j /\ overlaps(bs[i], bs[j])

\* A plausible slip of the loop condition: the loop never runs.
keepSeparatingNever(bs, pass) == FALSE

\* the loop condition of separateBodies
keepSeparating(bs, pass) == overlapsFound(bs) /\ pass < MAX_SEPARATION_PASSES

\* separateBodies(bodies): passes until nothing overlaps or the budget is spent
RECURSIVE separateLoop(_, _)
separateLoop(bs, pass) ==
    IF keepSeparating(bs, pass) THEN separateLoop(separatePass(bs), pass + 1) ELSE bs

separateBodies(bs) == separateLoop(bs, 0)

\* the x and y components of a body's velocity
velocityOf(body) == toVector(body.velocity.angle, body.velocity.speed)

\* A plausible slip of the integration: the frame's length is taken as 1000 ms.
moveBodyWholeSecond(body, delay) ==
    [body EXCEPT !.meta.nextX = body.x + velocityOf(body).x,
                 !.meta.nextY = body.y + velocityOf(body).y]

\* Integrate: the candidate position after delay ms at the body's velocity
moveBody(body, delay) ==
    [body EXCEPT !.meta.nextX = body.x + (velocityOf(body).x * delay) \div 1000,
                 !.meta.nextY = body.y + (velocityOf(body).y * delay) \div 1000]

\* the turn-domain reflections: a bounce off a vertical wall maps the angle a
\* to 1/2 - a, a bounce off a horizontal wall maps it to 1 - a
reflectX(angle) == <<(angle[2] \div 2 - angle[1] + angle[2]) % angle[2], angle[2]>>
reflectY(angle) == <<(angle[2] - angle[1]) % angle[2], angle[2]>>

\* A plausible slip of the wall bounce: the position is clamped and the angle
\* is left as it was.
bounceXClampsOnly(fixed, body) ==
    CASE body.meta.nextX < body.radius ->
             [body EXCEPT !.meta.nextX = body.radius]
      [] body.meta.nextX > fixed.width - body.radius ->
             [body EXCEPT !.meta.nextX = fixed.width - body.radius]
      [] OTHER -> body

\* Wall bounce: a candidate position beyond a wall reflects the angle and is
\* clamped to the wall; the speed stays
bounceX(fixed, body) ==
    CASE body.meta.nextX < body.radius ->
             [body EXCEPT !.velocity.angle = reflectX(@),
                          !.meta.nextX = body.radius]
      [] body.meta.nextX > fixed.width - body.radius ->
             [body EXCEPT !.velocity.angle = reflectX(@),
                          !.meta.nextX = fixed.width - body.radius]
      [] OTHER -> body

bounceY(fixed, body) ==
    CASE body.meta.nextY < body.radius ->
             [body EXCEPT !.velocity.angle = reflectY(@),
                          !.meta.nextY = body.radius]
      [] body.meta.nextY > fixed.height - body.radius ->
             [body EXCEPT !.velocity.angle = reflectY(@),
                          !.meta.nextY = fixed.height - body.radius]
      [] OTHER -> body

bounceWalls(fixed, body) == bounceY(fixed, bounceX(fixed, body))

\* the candidate position becomes the position
commitMove(body) == [body EXCEPT !.x = body.meta.nextX, !.y = body.meta.nextY]

\* the velocity whose components are vx and 0
fromNormal(vx) ==
    IF vx < 0 THEN [angle |-> <<2, 4>>, speed |-> -vx]
              ELSE [angle |-> <<0, 4>>, speed |-> vx]

\* v1n' = (v1n(m1 - m2) + 2 m2 v2n) / (m1 + m2)
elastic(v1n, m1, v2n, m2) == (v1n * (m1 - m2) + 2 * m2 * v2n) \div (m1 + m2)

\* A plausible slip of the collision response: nothing is exchanged.
collideKeepsVelocities(bs, i, j) ==
    [bs EXCEPT ![i].velocity = fromNormal(velocityOf(bs[i]).x),
               ![j].velocity = fromNormal(velocityOf(bs[j]).x)]

\* Elastic collision of bodies i and j by mass along the line of centres
collide(bs, i, j) ==
    LET v1n == velocityOf(bs[i]).x
        v2n == velocityOf(bs[j]).x
    IN  [bs EXCEPT ![i].velocity = fromNormal(elastic(v1n, bs[i].mass, v2n, bs[j].mass)),
                   ![j].velocity = fromNormal(elastic(v2n, bs[j].mass, v1n, bs[i].mass))]

\* a reference to the body at index i of the list
bodyRef(i) == [body |-> i]

\* the pair collided in the last frame
collidedLast(bs, i, j) ==
    bs[i].meta.lastCollisionBody = bodyRef(j) /\ bs[j].meta.lastCollisionBody = bodyRef(i)

\* collision response over every pair that touches and did not collide in
\* the last frame
RECURSIVE collidePairs(_, _)
collidePairs(bs, pairs) ==
    IF pairs = <<>> THEN bs
    ELSE LET i == Head(pairs)[1]
             j == Head(pairs)[2]
         IN  collidePairs(IF touches(bs[i], bs[j]) /\ ~collidedLast(bs, i, j)
                          THEN collide(bs, i, j) ELSE bs,
                          Tail(pairs))

\* each body records the body it touches, for the one-frame suppression
recordCollisions(bs) ==
    [i \in 1..Len(bs) |->
        [bs[i] EXCEPT !.meta.lastCollisionBody =
            IF \E j \in 1..Len(bs) : j # i /\ touches(bs[i], bs[j])
            THEN bodyRef(CHOOSE j \in 1..Len(bs) : j # i /\ touches(bs[i], bs[j]))
            ELSE None]]

\* simulateFrame(bodies, lastTime, currentTime)
simulateFrame(fixed, bs, lastTime, currentTime) ==
    LET moved     == [i \in 1..Len(bs) |->
                         commitMove(bounceWalls(fixed,
                                                moveBody(bs[i], currentTime - lastTime)))]
        separated == separateBodies(moved)
    IN  recordCollisions(collidePairs(separated, pairsOf(Len(separated))))

-----------------------------------------------------------------------------
(* SpecSeparate: separateBodies runs on bodies placed on one line *)

\* a body as the engine sees it
simBody(x, y, radius, mass, angle, speed) ==
    [x |-> x, y |-> y, radius |-> radius, mass |-> mass,
     velocity |-> [angle |-> angle, speed |-> speed],
     meta |-> [nextX |-> 0, nextY |-> 0, lastCollisionBody |-> None]]

\* the arena of the tests
SimSettings == [width |-> 100, height |-> 100]

\* the places and radii of the bodies handed to separateBodies
SeparateXs == {45, 50, 60}
SeparateRadii == {5, 10}
SeparateBodySet ==
    {simBody(x, 50, radius, 314, <<0, 4>>, 0) : x \in SeparateXs, radius \in SeparateRadii}

InitSeparate ==
    /\ NoLate
    /\ settings = SimSettings
    /\ bodies = <<>>
    /\ startBodies = <<>>
    /\ sepPass = 0
    /\ clock = 0
    /\ phase = "idle"
    /\ vitals = None /\ pvitals = None /\ lastDrain = None
    /\ alphaNumSeed = None /\ prngs = None /\ outs = None /\ lastInt = None
    /\ genomeIn = None /\ genesOut = None /\ commandsOut = None
    /\ parentBody = None /\ childBody = None
    /\ NoHex /\ NoSpike

\* separateBodies(bodies) is called with two bodies or more
CallSeparate ==
    /\ phase = "idle"
    /\ bodies' \in (SeqsUpTo(SeparateBodySet, MaxBodies) \ SeqsUpTo(SeparateBodySet, 1))
    /\ startBodies' = bodies'
    /\ sepPass' = 0
    /\ phase' = "separating"
    /\ UNCHANGED <<lateVars, settings, vitalsVars, prngVars, genomeVars, bodyVars, hexVars,
                   spikeVars, clock>>

\* one pass of the loop of separateBodies
SeparatePass ==
    /\ phase = "separating"
    /\ keepSeparating(bodies, sepPass)
    /\ bodies' = separatePass(bodies)
    /\ sepPass' = sepPass + 1
    /\ UNCHANGED <<lateVars, settings, vitalsVars, prngVars, genomeVars, bodyVars, hexVars,
                   spikeVars, startBodies, clock, phase>>

\* the loop ends and separateBodies returns
SeparateReturn ==
    /\ phase = "separating"
    /\ ~keepSeparating(bodies, sepPass)
    /\ phase' = "separated"
    /\ UNCHANGED <<lateVars, settings, vitalsVars, prngVars, genomeVars, bodyVars, hexVars,
                   spikeVars, simVars>>

NextSeparate == CallSeparate \/ SeparatePass \/ SeparateReturn

\* the loop is straight-line code of one thread: it keeps running
SpecSeparate == InitSeparate /\ [][NextSeparate]_vars /\ WF_vars(NextSeparate)

\* C13: separateBodies terminates, and when it returns either no two bodies
\* overlap or it has used up its budget of passes.
C13_SeparatesOrGivesUp ==
    /\ <>(phase = "separated")
    /\ [](sepPass <= MAX_SEPARATION_PASSES)
    /\ [](phase = "separated" =>
             \/ \A i \in 1..Len(bodies) : \A j \in 1..Len(bodies) :
                   i # j => sqr(bodies[i].x - bodies[j].x) + sqr(bodies[i].y - bodies[j].y)
                              >= sqr(bodies[i].radius + bodies[j].radius)
             \/ sepPass = MAX_SEPARATION_PASSES)

\* separateBodies gave up on two bodies centred at the same point.
C13_GaveUpOverlapping ==
    /\ phase = "separated"
    /\ sepPass = MAX_SEPARATION_PASSES
    /\ \E i \in 1..Len(bodies) : \E j \in 1..Len(bodies) :
          i < j /\ bodies[i].x = bodies[j].x /\ bodies[i].y = bodies[j].y

\* separateBodies needed two passes to separate three bodies.
C13_SeparatedInTwoPasses ==
    /\ phase = "separated"
    /\ sepPass = 2
    /\ ~overlapsFound(bodies)
    /\ bodies # startBodies

-----------------------------------------------------------------------------
(* SpecSim: one or two bodies on one horizontal line are simulated frame   *)
(* by frame                                                                *)

\* getCircleArea(10) of the tests: Math.floor(Math.PI * 10 * 10)
TestMass == FloorMul(sqr(10), PI)

\* the bodies of the tests: radius 10, placed on the line y = 50, moving
\* east or west at speed 10 or at rest
SimXs == {15, 35, 50, 65, 85}
SimAngles == {<<0, 4>>, <<2, 4>>}
SimSpeeds == {0, 10}
SimBodySet ==
    {simBody(x, 50, 10, TestMass, angle, speed) :
        x \in SimXs, angle \in SimAngles, speed \in SimSpeeds}

\* the lengths of a frame, in ms
FrameDelays == {0, 500, 1000}

InitSim ==
    /\ NoLate
    /\ settings = SimSettings
    /\ bodies \in (SeqsUpTo(SimBodySet, 2) \ {<<>>})
    /\ startBodies = bodies
    /\ sepPass = 0
    /\ clock = 0
    /\ phase = "running"
    /\ vitals = None /\ pvitals = None /\ lastDrain = None
    /\ alphaNumSeed = None /\ prngs = None /\ outs = None /\ lastInt = None
    /\ genomeIn = None /\ genesOut = None /\ commandsOut = None
    /\ parentBody = None /\ childBody = None
    /\ NoHex /\ NoSpike

\* bodies = simulateFrame(bodies, lastTime, currentTime)
SimulateFrame(delay) ==
    /\ phase = "running"
    /\ clock + delay <= MaxFrames * 1000
    /\ bodies' = simulateFrame(settings, bodies, clock, clock + delay)
    /\ clock' = clock + delay
    /\ UNCHANGED <<lateVars, settings, vitalsVars, prngVars, genomeVars, bodyVars, hexVars,
                   spikeVars, startBodies, sepPass, phase>>

NextSim == \E delay \in FrameDelays : SimulateFrame(delay)

SpecSim == InitSim /\ [][NextSim]_vars

\* the signed horizontal velocity of a body: east is positive
EastSpeed(body) ==
    IF body.velocity.angle = <<0, 4>> THEN body.velocity.speed ELSE -body.velocity.speed

\* the x a body reaches in the frame that is being taken when nothing stops it
CandidateX(body) == body.x + (EastSpeed(body) * (clock' - clock)) \div 1000

\* the candidate stays between the walls
InsideWalls(body, x) == body.radius <= x /\ x <= settings.width - body.radius

\* body i touches no other body when the frame has been taken
TouchesNone(i) ==
    \A j \in 1..Len(bodies') :
        j # i => sqr(bodies'[i].x - bodies'[j].x) + sqr(bodies'[i].y - bodies'[j].y)
                    > sqr(bodies'[i].radius + bodies'[j].radius)

Mirrored(angle) == IF angle = <<0, 4>> THEN <<2, 4>> ELSE <<0, 4>>

C15_BouncedOffRightWall ==
    /\ Len(bodies) = 1
    /\ startBodies[1].x = 85
    /\ startBodies[1].velocity = [angle |-> <<0, 4>>, speed |-> 10]
    /\ clock = 1000
    /\ bodies[1].velocity = [angle |-> <<2, 4>>, speed |-> 10]

\* C16: a body that meets no wall and no other body in a frame is displaced
\* by speed * (currentTime - lastTime) / 1000 along its angle and keeps its
\* velocity; over consecutive frames the displacements add up.
C16_FreeBodyMovesBySpeedTimesDelay ==
    /\ [][ \A i \in 1..Len(bodies) :
             ( /\ InsideWalls(bodies[i], CandidateX(bodies[i]))
               /\ TouchesNone(i) )
             => /\ bodies'[i].x = bodies[i].x
                                   + (EastSpeed(bodies[i]) * (clock' - clock)) \div 1000
                /\ bodies'[i].y = bodies[i].y
                /\ bodies'[i].velocity = bodies[i].velocity ]_vars
    /\ []( ( /\ Len(bodies) = 1
             /\ InsideWalls(startBodies[1],
                            startBodies[1].x + (EastSpeed(startBodies[1]) * clock) \div 1000) )
           => /\ bodies[1].x = startBodies[1].x
                                + (EastSpeed(startBodies[1]) * clock) \div 1000
              /\ bodies[1].y = startBodies[1].y
              /\ bodies[1].velocity = startBodies[1].velocity )

\* The body of the test: from (50, 50), moving east at speed 10, it is at
\* (80, 50) when 3000 ms have been simulated.
C16_TestBodyAtEighty ==
    /\ Len(bodies) = 1
    /\ startBodies[1].x = 50
    /\ startBodies[1].velocity = [angle |-> <<0, 4>>, speed |-> 10]
    /\ clock = 3000
    /\ bodies[1].x = 80 /\ bodies[1].y = 50

=============================================================================
